---- MODULE Spec2Model ----
(***************************************************************************)
(* State-machine model of the infranetes pod-sandbox providers.            *)
(*                                                                         *)
(* Every incoming RPC runs in its own goroutine (Procs).  A goroutine is   *)
(* at a program counter g[p].pc; one action is one stretch of handler code *)
(* between two points where the goroutine can block (a lock acquisition or *)
(* a call into the VM backend or the agent-connection factory).            *)
(*                                                                         *)
(* The provider variant is fixed at construction:                          *)
(*   "aws"        : pkg/infranetes/provider/aws/aws.go                     *)
(*   "virtualbox" : pkg/infranetes/provider/virtualbox/virtualbox.go       *)
(*                                                                         *)
(* The backend (libretto Provision/GetIPs/GetState/Destroy) and            *)
(* common.CreateClient are external: each call nondeterministically takes  *)
(* one of the outcomes its caller distinguishes.  Requests are well formed *)
(* (Config, Metadata and Linux are present).  The backend hands out a      *)
(* fresh instance id on every Provision.                                   *)
(***************************************************************************)
EXTENDS Integers, Sequences, FiniteSets, TLC

\* ---- bounds --------------------------------------------------------------
NumProcs == 2
MaxVMs == 2
MaxTime == 60
\* how many instances the backend provisions in the base specification
Quota == 1

\* ---- program constants ---------------------------------------------------
StaleSeconds == 30
TickStep == StaleSeconds

Procs == 1..NumProcs
Ids == 1..MaxVMs
NoProc == 0
NoId == 0

Variants == {"aws", "virtualbox"}

\* ---- labels and filters ---------------------------------------------------
LabelKeys == {"app", "tier"}
LabelVals == {"a", "b"}
LabelMaps == UNION {[K -> LabelVals] : K \in SUBSET LabelKeys}
EmptyLabels == [k \in {} |-> "a"]
AppA == [k \in {"app"} |-> "a"]
AppB == [k \in {"app"} |-> "b"]

\* kubeapi.PodSandboxFilter; nil is the nil pointer, Id = NoId the empty
\* string, State = "unset" the nil *PodSandBoxState.
NilFilter == [nil |-> TRUE, Id |-> NoId, State |-> "unset", LabelSelector |-> EmptyLabels]
MkFilter(id, st, sel) == [nil |-> FALSE, Id |-> id, State |-> st, LabelSelector |-> sel]

\* Labels the modelled RunPodSandbox requests carry, and the filters the
\* modelled ListPodSandbox requests carry.
RunLabels == {EmptyLabels, AppA}
ListFilters == {NilFilter,
                MkFilter(NoId, "unset", EmptyLabels),
                MkFilter(NoId, "NOTREADY", EmptyLabels),
                MkFilter(NoId, "unset", AppA),
                MkFilter(1, "unset", EmptyLabels)}

VARIABLES
    variant,     \* which provider was constructed
    vmMap,       \* keys of the provider's vmMap; key k maps to &podData[k]
    podData,     \* the podData objects on the heap, by instance id
    stateLock,   \* podData[k].StateLock: holder goroutine or NoProc
    vmMapLock,   \* the provider's vmMapLock
    vms,         \* backend: state of each instance
    quota,       \* backend: how many instances it will provision
    closeCount,  \* how many times Client.Close ran on the connection of k
    now,         \* wall clock, seconds
    crashed,     \* the process died of a panic
    g,           \* goroutine-local state of each RPC handler
    last,        \* what the step just taken returned to an RPC caller, if anything
    created,     \* ids RunPodSandbox returned with success
    removed,     \* ids RemovePodSandbox returned success for
    destroyFailed, \* ids RemovePodSandbox returned a Destroy error for
    hist,        \* ghost: what earlier calls saw, kept only when hist.on
    imageMap     \* the image provider's imageMap, as a set of [ref, image] entries

vars == <<variant, quota, vmMap, podData, stateLock, vmMapLock, vms, closeCount,
          now, crashed, g, last, created, removed, destroyFailed, hist, imageMap>>

NoPod == [Id |-> NoId, Labels |-> EmptyLabels, Client |-> "nil",
          PodState |-> "READY", vmState |-> "none", vmStateLastChecked |-> 0]

IdleG == [pc |-> "idle", op |-> "none", id |-> NoId, filter |-> NilFilter,
          labels |-> EmptyLabels, vm |-> NoId, client |-> "nil", ptr |-> NoId,
          todo |-> {},
          items |-> <<>>, rstate |-> "none", effects |-> <<>>,
          \* ghost: the instances that were not running when the call arrived,
          \* and the time it arrived
          down0 |-> {}, t0 |-> 0,
          \* the container id of a container request; ghost: the request as the
          \* agent received it, and what the agent answered
          cid |-> <<>>, sent |-> <<>>, answer |-> "none",
          \* the image reference of an image request, what the catalog
          \* returned for it, and the images the call found in the directory
          ref |-> <<>>, hits |-> <<>>, images |-> <<>>]

\* ghost: the PodSandboxStatus that returned last for an instance: when it had
\* arrived (-1: there was none) and the sample it left
NoPrev == [at |-> -1, vmState |-> "none", checked |-> 0]
\* and the labels of the request whose RunPodSandbox returned an id
NoHist(on) == [on |-> on, prev |-> [k \in Ids |-> NoPrev],
               req |-> [k \in Ids |-> EmptyLabels]]
Observed(x, dflt) == IF hist.on THEN x ELSE dflt

\* what is remembered of a call that returned r to its caller
Returned(p, gp, r) ==
    [who |-> p, op |-> gp.op, id |-> gp.id, filter |-> gp.filter, vm |-> gp.vm,
     ptr |-> gp.ptr, items |-> gp.items, rstate |-> gp.rstate,
     effects |-> gp.effects, ret |-> r, down0 |-> gp.down0, t0 |-> gp.t0,
     labels |-> gp.labels, cid |-> gp.cid, sent |-> gp.sent, answer |-> gp.answer,
     prev |-> IF gp.ptr = NoId THEN NoPrev ELSE hist.prev[gp.ptr],
     ref |-> gp.ref, hits |-> gp.hits, images |-> gp.images,
     \* ghost: the record the call worked on, as it was before this step
     before |-> IF gp.ptr = NoId THEN NoPod ELSE podData[gp.ptr]]
NoCallYet ==
    [who |-> NoProc, op |-> "none", id |-> NoId, filter |-> NilFilter, vm |-> NoId,
     ptr |-> NoId, items |-> <<>>, rstate |-> "none", effects |-> <<>>,
     ret |-> "none", down0 |-> {}, t0 |-> 0, labels |-> EmptyLabels, cid |-> <<>>,
     sent |-> <<>>, answer |-> "none", prev |-> NoPrev,
     ref |-> <<>>, hits |-> <<>>, images |-> <<>>, before |-> NoPod]

Init ==
    /\ variant \in Variants
    /\ quota = Quota
    /\ vmMap = {}
    /\ podData = [k \in Ids |-> NoPod]
    /\ stateLock = [k \in Ids |-> NoProc]
    /\ vmMapLock = [w |-> NoProc, held |-> FALSE, readers |-> {}]
    /\ vms = [k \in Ids |-> "none"]
    /\ closeCount = [k \in Ids |-> 0]
    /\ now = 0
    /\ crashed = FALSE
    /\ g = [p \in Procs |-> IdleG]
    /\ last = NoCallYet
    /\ created = {}
    /\ removed = {}
    /\ destroyFailed = {}
    /\ hist = NoHist(FALSE)
    /\ imageMap = {}

\* ---- goroutine-local helpers ---------------------------------------------
\* p moves to program counter pc
At(p, pc) == [g[p] EXCEPT !.pc = pc]
\* the handler returns r to its caller and its goroutine ends
Return(p, gp, r) ==
    /\ g' = [g EXCEPT ![p] = IdleG]
    /\ last' = Returned(p, gp, r)
    /\ hist' = IF hist.on /\ gp.op = "Status" /\ r = "ok"
               THEN [hist EXCEPT !.prev[gp.ptr] =
                        [at |-> gp.t0, vmState |-> podData'[gp.ptr].vmState,
                         checked |-> podData'[gp.ptr].vmStateLastChecked]]
               ELSE IF hist.on /\ gp.op = "Run" /\ r = "ok"
               THEN [hist EXCEPT !.req[gp.vm] = gp.labels]
               ELSE hist
\* the call records an effect it had on the backend, the agent connection or
\* the directory (ghost: the code keeps no such log)
Log(gp, e) == [gp EXCEPT !.effects = Append(@, e)]
Set(p, gp) == g' = [g EXCEPT ![p] = gp] /\ last' = NoCallYet /\ hist' = hist

Running(p) == ~crashed /\ g[p].pc # "idle"
Is(p, pc) == ~crashed /\ g[p].pc = pc


\* ---- sync.RWMutex / sync.Mutex (vmMapLock) ---------------------------------
\* RLock returns only while no writer holds the lock or has announced itself.
RLockFree == vmMapLock.w = NoProc
RLocked(p) == [vmMapLock EXCEPT !.readers = @ \cup {p}]
RUnlocked(p) == [vmMapLock EXCEPT !.readers = @ \ {p}]
\* Lock first takes the writer mutex (this announces the writer and stops new
\* readers), then waits until the readers that are inside have left.
WLockFree == vmMapLock.w = NoProc
WAnnounced(p) == [vmMapLock EXCEPT !.w = p, !.held = FALSE]
WDrained(p) == vmMapLock.w = p /\ vmMapLock.readers = {}
WHeld(p) == [vmMapLock EXCEPT !.w = p, !.held = TRUE]
WUnlocked == [vmMapLock EXCEPT !.w = NoProc, !.held = FALSE]

\* ---- the external collaborators -------------------------------------------
\* the instance id the backend issues next: ids are never reused
FreshIds == {k \in Ids : /\ k <= quota
                         /\ vms[k] = "none"
                         /\ \A j \in Ids : j < k => vms[j] # "none"}
\* vm.GetState(): an error, or the instance's raw state
GetStateOutcomes(k) == {[err |-> TRUE, state |-> "none"], [err |-> FALSE, state |-> vms[k]]}
\* vm.Destroy(): an error (nothing happens) or success (the instance is gone)
Destroyed(k) == [vms EXCEPT ![k] = "destroyed"]

\* the backend instance stops or starts on its own
BackendChange(k) ==
    /\ ~crashed
    /\ vms[k] \in {"running", "stopped"}
    /\ vms' = [vms EXCEPT ![k] = IF @ = "running" THEN "stopped" ELSE "running"]
    /\ UNCHANGED <<imageMap, variant, quota, vmMap, podData, stateLock, vmMapLock, closeCount,
                   now, crashed, g, created, removed, destroyFailed>>
    /\ last' = NoCallYet
    /\ hist' = hist

\* time passes; only aws.go compares times (vmStateLastChecked)
Tick ==
    /\ ~crashed
    /\ variant = "aws"
    /\ now + TickStep <= MaxTime
    /\ now' = now + TickStep
    /\ UNCHANGED <<imageMap, variant, quota, vmMap, podData, stateLock, vmMapLock, vms, closeCount,
                   crashed, g, created, removed, destroyFailed>>
    /\ last' = NoCallYet
    /\ hist' = hist

\* ---- common/poddata.go ------------------------------------------------------
\* PodSandboxFilter.GetState(): the generated getter returns the enum's zero
\* value, READY, when the field is not set
GetState(filter) == IF filter.State = "unset" THEN "READY" ELSE filter.State

\* mutant of FilterByLabels: only the presence of the key is checked
FilterByLabelsKeyOnly(pd, filterLabels) ==
    \E key \in DOMAIN filterLabels : key \notin DOMAIN pd.Labels

\* PodData.FilterByLabels: TRUE means "filter the record out"
FilterByLabels(pd, filterLabels) ==
    \E key \in DOMAIN filterLabels :
        \/ key \notin DOMAIN pd.Labels
        \/ pd.Labels[key] # filterLabels[key]

\* mutant of Filter: the state criterion is applied to a nil filter as well
FilterStateOnNil(pd, filter) ==
    \/ GetState(filter) # pd.PodState
    \/ (~filter.nil /\ filter.Id # NoId /\ filter.Id # pd.Id)
    \/ (~filter.nil /\ FilterByLabels(pd, filter.LabelSelector))

\* PodData.Filter: TRUE means "filter the record out"
Filter(pd, filter) ==
    IF filter.nil THEN FALSE
    ELSE \/ (filter.Id # NoId /\ filter.Id # pd.Id)
         \/ GetState(filter) # pd.PodState
         \/ FilterByLabels(pd, filter.LabelSelector)

\* mutant of StopPod: stopping also overwrites the cached backend sample
StopPodClearsSample(pd) == [pd EXCEPT !.PodState = "NOTREADY", !.vmState = "stopped"]

\* PodData.StopPod: Lock, PodState = NOTREADY, Unlock.  sync.Mutex is not
\* reentrant: a Lock by the goroutine that holds the mutex never returns.
StopPodBlocksForever(p, k) == stateLock[k] = p
StopPod(pd) == [pd EXCEPT !.PodState = "NOTREADY"]

\* PodData.GetSandbox, with the State the caller reports
GetSandbox(pd, st) == [Id |-> pd.Id, State |-> st, Labels |-> pd.Labels]

\* ---- aws.go ------------------------------------------------------------------
\* mutant of getPodData: the ok of the map lookup is not checked
getPodDataNoCheck(id) == id

\* getPodData: the podData pointer of id, or NoId (nil, "Invalid PodSandboxId")
getPodData(id) == IF id \in vmMap THEN id ELSE NoId

\* mutant of Stale: a sample of exactly 30 seconds counts as stale
StaleAtThreshold(pd) == now >= pd.vmStateLastChecked + StaleSeconds

\* time.Now().After(vmStateLastChecked.Add(30 * time.Second))
Stale(pd) == now > pd.vmStateLastChecked + StaleSeconds

\* mutant of updateVMState: the time of the sample is set although GetState
\* failed
updateVMStateStampsOnError(pd, stale, out) ==
    IF stale
    THEN IF out.err
         THEN [ret |-> pd.vmState, pd |-> [pd EXCEPT !.vmStateLastChecked = now]]
         ELSE [ret |-> out.state,
               pd |-> [pd EXCEPT !.vmState = out.state, !.vmStateLastChecked = now]]
    ELSE [ret |-> pd.vmState, pd |-> pd]

\* updateVMState: out is what vm.GetState() returned when the sample was stale
\* (and is ignored when it was not).  Yields the value returned and the record.
updateVMState(pd, stale, out) ==
    IF stale /\ ~out.err
    THEN [ret |-> out.state,
          pd |-> [pd EXCEPT !.vmState = out.state, !.vmStateLastChecked = now]]
    ELSE [ret |-> pd.vmState, pd |-> pd]
NoCall == [err |-> TRUE, state |-> "none"]

\* mutant of Downgrade: the record is not downgraded
DowngradeNever(pd, vmState) == pd
\* mutant of Downgrade: a running sample sets the record back to READY
DowngradeRestores(pd, vmState) ==
    [pd EXCEPT !.PodState = IF vmState # "running" THEN "NOTREADY" ELSE "READY"]

\* the PodState downgrade of PodSandboxStatus and filter
Downgrade(pd, vmState) ==
    IF vmState # "running" THEN [pd EXCEPT !.PodState = "NOTREADY"] ELSE pd

\* ---- an RPC arrives: the handler starts in its own goroutine ---------------
\* ghost: the instances of the directory whose backend state is not "running"
Down == {k \in vmMap : vms[k] # "running"}
Call(p, gp) == ~crashed /\ g[p].pc = "idle" /\ Set(p, gp)
NoSharedChange == UNCHANGED <<imageMap, variant, quota, vmMap, podData, stateLock, vmMapLock, vms,
                              closeCount, now, crashed, created, removed, destroyFailed>>

CallRunPodSandbox(p) ==
    /\ \E l \in RunLabels :
          Call(p, [IdleG EXCEPT !.pc = "run_provision", !.op = "Run", !.labels = l])
    /\ NoSharedChange

CallStopPodSandbox(p) ==
    /\ \E id \in Ids : Call(p, [IdleG EXCEPT !.pc = "sp_lookup", !.op = "Stop", !.id = id])
    /\ NoSharedChange

CallRemovePodSandbox(p) ==
    /\ \E id \in Ids : Call(p, [IdleG EXCEPT !.pc = "rm_lookup", !.op = "Remove", !.id = id])
    /\ NoSharedChange

CallPodSandboxStatus(p) ==
    /\ \E id \in Ids : Call(p, [IdleG EXCEPT !.pc = "st_lookup", !.op = "Status", !.id = id,
                                         !.down0 = Observed(Down, {}),
                                         !.t0 = Observed(now, 0)])
    /\ NoSharedChange

CallListPodSandbox(p) ==
    /\ \E f \in ListFilters :
          Call(p, [IdleG EXCEPT !.pc = "ls_lock", !.op = "List", !.filter = f,
                         !.down0 = Observed(Down, {}),
                                         !.t0 = Observed(now, 0)])
    /\ NoSharedChange

CallGetClient(p) ==
    /\ \E id \in Ids : Call(p, [IdleG EXCEPT !.pc = "gc_lookup", !.op = "GetClient", !.id = id])
    /\ NoSharedChange

\* ---- aws.go: RunPodSandbox ---------------------------------------------------
\* lines 84-113: read the ssh key, vm.Provision()
AwsRunProvision(p) ==
    /\ variant = "aws" /\ Is(p, "run_provision")
    /\ \/ /\ Return(p, g[p], "KeyError")
          /\ UNCHANGED vms
       \/ /\ Return(p, Log(g[p], "Provision:err"), "ProvisionError")
          /\ UNCHANGED vms
       \/ \E k \in FreshIds :
             /\ vms' = [vms EXCEPT ![k] = "running"]
             /\ Set(p, [Log(At(p, "run_getips"), "Provision:ok") EXCEPT !.vm = k])
    /\ UNCHANGED <<imageMap, variant, quota, vmMap, podData, stateLock, vmMapLock, closeCount,
                   now, crashed, created, removed, destroyFailed>>

\* lines 115-122: vm.GetIPs(), ips[0]
AwsRunGetIPs(p) ==
    /\ variant = "aws" /\ Is(p, "run_getips")
    /\ \/ /\ Return(p, Log(g[p], "GetIPs:err"), "NetworkError")
          /\ UNCHANGED crashed
       \/ /\ crashed' = TRUE    \* ips is empty: ips[0] panics
          /\ Set(p, Log(g[p], "GetIPs:empty"))
       \/ /\ Set(p, Log(At(p, "run_client"), "GetIPs:ok"))
          /\ UNCHANGED crashed
    /\ UNCHANGED <<imageMap, variant, quota, vmMap, podData, stateLock, vmMapLock, vms, closeCount,
                   now, created, removed, destroyFailed>>

\* lines 124-134: common.CreateClient(ip) returns (client, nil), (nil, err) or
\* (nil, nil)
AwsRunCreateClient(p) ==
    /\ variant = "aws" /\ Is(p, "run_client")
    /\ \/ Return(p, Log(g[p], "CreateClient:err"), "AgentUnreachable")
       \/ Set(p, Log(At(p, "run_destroy"), "CreateClient:nil"))
       \/ Set(p, Log(At(p, "run_lock"), "CreateClient:ok"))
    /\ NoSharedChange

\* lines 132-133: vm.Destroy() (its error is dropped), return the error
AwsRunDestroy(p) ==
    /\ variant = "aws" /\ Is(p, "run_destroy")
    /\ \/ /\ vms' = Destroyed(g[p].vm)
          /\ Return(p, Log(g[p], "Destroy:ok"), "AgentUnreachable")
       \/ /\ UNCHANGED vms
          /\ Return(p, Log(g[p], "Destroy:err"), "AgentUnreachable")
    /\ UNCHANGED <<imageMap, variant, quota, vmMap, podData, stateLock, vmMapLock, closeCount,
                   now, crashed, created, removed, destroyFailed>>

\* line 136: vmMapLock.Lock() announces the writer
AwsRunLock(p) ==
    /\ variant = "aws" /\ Is(p, "run_lock")
    /\ WLockFree
    /\ vmMapLock' = WAnnounced(p)
    /\ Set(p, At(p, "run_insert"))
    /\ UNCHANGED <<imageMap, variant, quota, vmMap, podData, stateLock, vms, closeCount,
                   now, crashed, created, removed, destroyFailed>>

\* the record RunPodSandbox builds
NewPodData(k, labels, client) ==
    [Id |-> k, Labels |-> labels, Client |-> client, PodState |-> "READY",
     vmState |-> "running", vmStateLastChecked |-> now]

\* lines 136-160: the lock is held, insert, deferred Unlock, return the id
AwsRunInsert(p) ==
    /\ variant = "aws" /\ Is(p, "run_insert")
    /\ WDrained(p)
    /\ LET k == g[p].vm IN
        /\ vmMap' = vmMap \cup {k}
        /\ podData' = [podData EXCEPT ![k] = NewPodData(k, g[p].labels, "conn")]
        /\ created' = created \cup {k}
    /\ vmMapLock' = WUnlocked
    /\ Return(p, Log(g[p], "insert"), "ok")
    /\ UNCHANGED <<imageMap, variant, quota, stateLock, vms, closeCount, now, crashed, removed, destroyFailed>>


\* ---- aws.go: StopPodSandbox --------------------------------------------------
\* lines 164-170: RLock, getPodData; NotFound returns through the deferred RUnlock
AwsStopLookup(p) ==
    /\ variant = "aws" /\ Is(p, "sp_lookup")
    /\ RLockFree
    /\ IF getPodData(g[p].id) = NoId
       THEN /\ Return(p, g[p], "NotFound")
            /\ UNCHANGED vmMapLock
       ELSE /\ vmMapLock' = RLocked(p)
            /\ Set(p, [At(p, "sp_statelock") EXCEPT !.ptr = getPodData(g[p].id)])
    /\ UNCHANGED <<imageMap, variant, quota, vmMap, podData, stateLock, vms, closeCount,
                   now, crashed, created, removed, destroyFailed>>

\* line 172: podData.StateLock.Lock()
AwsStopStateLock(p) ==
    /\ variant = "aws" /\ Is(p, "sp_statelock")
    /\ stateLock[g[p].ptr] = NoProc
    /\ stateLock' = [stateLock EXCEPT ![g[p].ptr] = p]
    /\ Set(p, At(p, "sp_stoppod"))
    /\ UNCHANGED <<imageMap, variant, quota, vmMap, podData, vmMapLock, vms, closeCount,
                   now, crashed, created, removed, destroyFailed>>

\* lines 175-178: podData.StopPod() (which locks StateLock itself), then the
\* deferred StateLock.Unlock and RUnlock, return
AwsStopStopPod(p) ==
    /\ variant = "aws" /\ Is(p, "sp_stoppod")
    /\ LET k == g[p].ptr IN
       IF StopPodBlocksForever(p, k)
       THEN /\ Set(p, At(p, "blocked"))
            /\ UNCHANGED <<podData, stateLock, vmMapLock>>
       ELSE /\ stateLock[k] = NoProc
            /\ podData' = [podData EXCEPT ![k] = StopPod(@)]
            /\ stateLock' = [stateLock EXCEPT ![k] = NoProc]
            /\ vmMapLock' = RUnlocked(p)
            /\ Return(p, g[p], "ok")
    /\ UNCHANGED <<imageMap, variant, quota, vmMap, vms, closeCount, now, crashed, created, removed, destroyFailed>>

\* ---- aws.go: RemovePodSandbox ------------------------------------------------
\* line 182: vmMapLock.Lock() announces the writer
AwsRemoveLock(p) ==
    /\ variant = "aws" /\ Is(p, "rm_lookup")
    /\ WLockFree
    /\ vmMapLock' = WAnnounced(p)
    /\ Set(p, At(p, "rm_locked"))
    /\ UNCHANGED <<imageMap, variant, quota, vmMap, podData, stateLock, vms, closeCount,
                   now, crashed, created, removed, destroyFailed>>

\* lines 182-188: the lock is held; getPodData
AwsRemoveLookup(p) ==
    /\ variant = "aws" /\ Is(p, "rm_locked")
    /\ WDrained(p)
    /\ IF getPodData(g[p].id) = NoId
       THEN /\ vmMapLock' = WUnlocked
            /\ Return(p, g[p], "NotFound")
       ELSE /\ vmMapLock' = WHeld(p)
            /\ Set(p, [At(p, "rm_statelock") EXCEPT !.ptr = getPodData(g[p].id)])
    /\ UNCHANGED <<imageMap, variant, quota, vmMap, podData, stateLock, vms, closeCount,
                   now, crashed, created, removed, destroyFailed>>

\* line 190: podData.StateLock.Lock()
AwsRemoveStateLock(p) ==
    /\ variant = "aws" /\ Is(p, "rm_statelock")
    /\ stateLock[g[p].ptr] = NoProc
    /\ stateLock' = [stateLock EXCEPT ![g[p].ptr] = p]
    /\ Set(p, At(p, "rm_destroy"))
    /\ UNCHANGED <<imageMap, variant, quota, vmMap, podData, vmMapLock, vms, closeCount,
                   now, crashed, created, removed, destroyFailed>>

\* mutant of AwsRemoveDestroy: the entry is dropped although Destroy failed
AwsRemoveDestroyDropsEntry(p) ==
    /\ variant = "aws" /\ Is(p, "rm_destroy")
    /\ LET k == g[p].ptr IN
       \/ /\ Return(p, Log(g[p], "Destroy:err"), "DestroyError")
          /\ destroyFailed' = destroyFailed \cup {k}
          /\ stateLock' = [stateLock EXCEPT ![k] = NoProc]
          /\ vmMapLock' = WUnlocked
          /\ vmMap' = vmMap \ {k}
          /\ UNCHANGED vms
       \/ /\ vms' = Destroyed(k)
          /\ Set(p, Log(At(p, "rm_close"), "Destroy:ok"))
          /\ UNCHANGED <<stateLock, vmMapLock, destroyFailed, vmMap>>
    /\ UNCHANGED <<imageMap, variant, quota, podData, closeCount, now, crashed,
                   created, removed>>

\* lines 193-195: podData.vm.Destroy(); an error returns through the deferred
\* unlocks
AwsRemoveDestroy(p) ==
    /\ variant = "aws" /\ Is(p, "rm_destroy")
    /\ LET k == g[p].ptr IN
       \/ /\ Return(p, Log(g[p], "Destroy:err"), "DestroyError")
          /\ destroyFailed' = destroyFailed \cup {k}
          /\ stateLock' = [stateLock EXCEPT ![k] = NoProc]
          /\ vmMapLock' = WUnlocked
          /\ UNCHANGED vms
       \/ /\ vms' = Destroyed(k)
          /\ Set(p, Log(At(p, "rm_close"), "Destroy:ok"))
          /\ UNCHANGED <<stateLock, vmMapLock, destroyFailed>>
    /\ UNCHANGED <<imageMap, variant, quota, vmMap, podData, closeCount, now, crashed,
                   created, removed>>

\* PodData.RemovePod (poddata.go): p.Client.Close(); a nil Client panics
RemovePod(p, k, next) ==
    IF podData[k].Client = "nil"
    THEN /\ crashed' = TRUE
         /\ Set(p, Log(g[p], "Close:nil"))
         /\ UNCHANGED closeCount
    ELSE /\ closeCount' = [closeCount EXCEPT ![k] = @ + 1]
         /\ Set(p, Log(At(p, next), "Close"))
         /\ UNCHANGED crashed

\* line 197: podData.RemovePod()
AwsRemoveClose(p) ==
    /\ variant = "aws" /\ Is(p, "rm_close")
    /\ RemovePod(p, g[p].ptr, "rm_delete")
    /\ UNCHANGED <<imageMap, variant, quota, vmMap, podData, stateLock, vmMapLock, vms, now,
                   created, removed, destroyFailed>>

\* mutant of AwsRemoveDelete: the delete is forgotten
AwsRemoveDeleteKeepsEntry(p) ==
    /\ variant = "aws" /\ Is(p, "rm_delete")
    /\ stateLock' = [stateLock EXCEPT ![g[p].ptr] = NoProc]
    /\ vmMapLock' = WUnlocked
    /\ removed' = removed \cup {g[p].id}
    /\ Return(p, Log(g[p], "delete"), "ok")
    /\ UNCHANGED <<imageMap, variant, quota, vmMap, podData, vms, closeCount, now, crashed,
                   created, destroyFailed>>

\* lines 199-202: delete(v.vmMap, id), deferred unlocks, return
AwsRemoveDelete(p) ==
    /\ variant = "aws" /\ Is(p, "rm_delete")
    /\ vmMap' = vmMap \ {g[p].id}
    /\ stateLock' = [stateLock EXCEPT ![g[p].ptr] = NoProc]
    /\ vmMapLock' = WUnlocked
    /\ removed' = removed \cup {g[p].id}
    /\ Return(p, Log(g[p], "delete"), "ok")
    /\ UNCHANGED <<imageMap, variant, quota, podData, vms, closeCount, now, crashed, created, destroyFailed>>

\* ---- aws.go: PodSandboxStatus ------------------------------------------------
\* lines 221-227: RLock, getPodData
AwsStatusLookup(p) ==
    /\ variant = "aws" /\ Is(p, "st_lookup")
    /\ RLockFree
    /\ IF getPodData(g[p].id) = NoId
       THEN /\ Return(p, g[p], "NotFound")
            /\ UNCHANGED vmMapLock
       ELSE /\ vmMapLock' = RLocked(p)
            /\ Set(p, [At(p, "st_statelock") EXCEPT !.ptr = getPodData(g[p].id)])
    /\ UNCHANGED <<imageMap, variant, quota, vmMap, podData, stateLock, vms, closeCount,
                   now, crashed, created, removed, destroyFailed>>

\* line 229: podData.StateLock.Lock()
AwsStatusStateLock(p) ==
    /\ variant = "aws" /\ Is(p, "st_statelock")
    /\ stateLock[g[p].ptr] = NoProc
    /\ stateLock' = [stateLock EXCEPT ![g[p].ptr] = p]
    /\ Set(p, At(p, "st_update"))
    /\ UNCHANGED <<imageMap, variant, quota, vmMap, podData, vmMapLock, vms, closeCount,
                   now, crashed, created, removed, destroyFailed>>

\* lines 232-243 once updateVMState has returned u: downgrade, PodStatus, the
\* deferred unlocks, return the snapshot
AwsStatusFinish(p, gp, u) ==
    LET k == g[p].ptr
        pd == Downgrade(u.pd, u.ret)
    IN /\ podData' = [podData EXCEPT ![k] = pd]
       /\ stateLock' = [stateLock EXCEPT ![k] = NoProc]
       /\ vmMapLock' = RUnlocked(p)
       /\ Return(p, [gp EXCEPT !.rstate = pd.PodState], "ok")

\* line 232, updateVMState lines 206-208: a fresh sample needs no backend call
AwsStatusUpdate(p) ==
    /\ variant = "aws" /\ Is(p, "st_update")
    /\ IF Stale(podData[g[p].ptr])
       THEN /\ Set(p, Log(At(p, "st_getstate"), "GetState"))
            /\ UNCHANGED <<podData, stateLock, vmMapLock>>
       ELSE AwsStatusFinish(p, g[p], updateVMState(podData[g[p].ptr], FALSE, NoCall))
    /\ UNCHANGED <<imageMap, variant, quota, vmMap, vms, closeCount, now, crashed, created, removed, destroyFailed>>

\* updateVMState lines 209-217: vm.GetState() returns
AwsStatusGetState(p) ==
    /\ variant = "aws" /\ Is(p, "st_getstate")
    /\ \E out \in GetStateOutcomes(g[p].ptr) :
          AwsStatusFinish(p, Log(g[p], IF out.err THEN "GetState:err" ELSE "GetState:ok"),
                          updateVMState(podData[g[p].ptr], TRUE, out))
    /\ UNCHANGED <<imageMap, variant, quota, vmMap, vms, closeCount, now, crashed, created, removed, destroyFailed>>

\* ---- aws.go: ListPodSandbox and filter ---------------------------------------
\* lines 247-254: RLock, start ranging over vmMap
AwsListLock(p) ==
    /\ variant = "aws" /\ Is(p, "ls_lock")
    /\ RLockFree
    /\ vmMapLock' = RLocked(p)
    /\ Set(p, [At(p, "ls_next") EXCEPT !.todo = vmMap])
    /\ UNCHANGED <<imageMap, variant, quota, vmMap, podData, stateLock, vms, closeCount,
                   now, crashed, created, removed, destroyFailed>>

\* lines 254, 262-268: the next record in map order (any order), or the end of
\* the range: deferred RUnlock, return the items
AwsListNext(p) ==
    /\ variant = "aws" /\ Is(p, "ls_next")
    /\ IF g[p].todo = {}
       THEN /\ vmMapLock' = RUnlocked(p)
            /\ Return(p, g[p], "ok")
       ELSE /\ \E k \in g[p].todo :
                  Set(p, [At(p, "ls_statelock") EXCEPT !.ptr = k, !.todo = @ \ {k}])
            /\ UNCHANGED vmMapLock
    /\ UNCHANGED <<imageMap, variant, quota, vmMap, podData, stateLock, vms, closeCount,
                   now, crashed, created, removed, destroyFailed>>

\* filter line 272: podData.StateLock.Lock()
AwsListStateLock(p) ==
    /\ variant = "aws" /\ Is(p, "ls_statelock")
    /\ stateLock[g[p].ptr] = NoProc
    /\ stateLock' = [stateLock EXCEPT ![g[p].ptr] = p]
    /\ Set(p, At(p, "ls_update"))
    /\ UNCHANGED <<imageMap, variant, quota, vmMap, podData, vmMapLock, vms, closeCount,
                   now, crashed, created, removed, destroyFailed>>

\* filter lines 277-289 once updateVMState has returned u: downgrade,
\* podData.Filter, GetSandbox, the deferred StateLock.Unlock; back in
\* ListPodSandbox the sandbox is appended
AwsListFinish(p, gp, u) ==
    LET k == g[p].ptr
        pd == Downgrade(u.pd, u.ret)
    IN /\ podData' = [podData EXCEPT ![k] = pd]
       /\ stateLock' = [stateLock EXCEPT ![k] = NoProc]
       /\ Set(p, [gp EXCEPT !.pc = "ls_next",
                            !.items = IF Filter(pd, g[p].filter) THEN @
                                      ELSE Append(@, GetSandbox(pd, pd.PodState))])

\* filter line 277, updateVMState lines 206-208
AwsListUpdate(p) ==
    /\ variant = "aws" /\ Is(p, "ls_update")
    /\ IF Stale(podData[g[p].ptr])
       THEN /\ Set(p, Log(At(p, "ls_getstate"), "GetState"))
            /\ UNCHANGED <<podData, stateLock>>
       ELSE AwsListFinish(p, g[p], updateVMState(podData[g[p].ptr], FALSE, NoCall))
    /\ UNCHANGED <<imageMap, variant, quota, vmMap, vmMapLock, vms, closeCount, now, crashed,
                   created, removed, destroyFailed>>

\* updateVMState lines 209-217: vm.GetState() returns
AwsListGetState(p) ==
    /\ variant = "aws" /\ Is(p, "ls_getstate")
    /\ \E out \in GetStateOutcomes(g[p].ptr) :
          AwsListFinish(p, Log(g[p], IF out.err THEN "GetState:err" ELSE "GetState:ok"),
                        updateVMState(podData[g[p].ptr], TRUE, out))
    /\ UNCHANGED <<imageMap, variant, quota, vmMap, vmMapLock, vms, closeCount, now, crashed,
                   created, removed, destroyFailed>>

\* ---- aws.go: GetClient / GetClientLocked -------------------------------------
\* lines 292-307: RLock, getPodData, return podData.Client, deferred RUnlock
AwsGetClient(p) ==
    /\ variant = "aws" /\ Is(p, "gc_lookup")
    /\ RLockFree
    /\ IF getPodData(g[p].id) = NoId
       THEN Return(p, g[p], "NotFound")
       ELSE Return(p, [g[p] EXCEPT !.ptr = getPodData(g[p].id)], "ok")
    /\ NoSharedChange

AwsNext(p) ==
    \/ AwsRunProvision(p) \/ AwsRunGetIPs(p) \/ AwsRunCreateClient(p)
    \/ AwsRunDestroy(p) \/ AwsRunLock(p) \/ AwsRunInsert(p)
    \/ AwsStopLookup(p) \/ AwsStopStateLock(p) \/ AwsStopStopPod(p)
    \/ AwsRemoveLock(p) \/ AwsRemoveLookup(p) \/ AwsRemoveStateLock(p)
    \/ AwsRemoveDestroy(p) \/ AwsRemoveClose(p) \/ AwsRemoveDelete(p)
    \/ AwsStatusLookup(p) \/ AwsStatusStateLock(p) \/ AwsStatusUpdate(p)
    \/ AwsStatusGetState(p)
    \/ AwsListLock(p) \/ AwsListNext(p) \/ AwsListStateLock(p)
    \/ AwsListUpdate(p) \/ AwsListGetState(p)
    \/ AwsGetClient(p)

\* ---- virtualbox.go ------------------------------------------------------------
\* vmMapLock is a sync.Mutex: vmMapLock.w is its holder
MutexFree == vmMapLock.w = NoProc
MutexHeld(p) == [vmMapLock EXCEPT !.w = p, !.held = TRUE]

\* getPodData lines 58-67: Lock, look up, deferred Unlock
vboxGetPodData(id) == IF id \in vmMap THEN id ELSE NoId

\* lines 70-82: vm.Provision()
VboxRunProvision(p) ==
    /\ variant = "virtualbox" /\ Is(p, "run_provision")
    /\ \/ /\ Return(p, Log(g[p], "Provision:err"), "ProvisionError")
          /\ UNCHANGED vms
       \/ \E k \in FreshIds :
             /\ vms' = [vms EXCEPT ![k] = "running"]
             /\ Set(p, [Log(At(p, "run_getips"), "Provision:ok") EXCEPT !.vm = k])
    /\ UNCHANGED <<imageMap, variant, quota, vmMap, podData, stateLock, vmMapLock, closeCount,
                   now, crashed, created, removed, destroyFailed>>

\* lines 84-89: vm.GetIPs(), ips[0]
VboxRunGetIPs(p) ==
    /\ variant = "virtualbox" /\ Is(p, "run_getips")
    /\ \/ /\ Return(p, Log(g[p], "GetIPs:err"), "NetworkError")
          /\ UNCHANGED crashed
       \/ /\ crashed' = TRUE    \* ips is empty: ips[0] panics
          /\ Set(p, Log(g[p], "GetIPs:empty"))
       \/ /\ Set(p, Log(At(p, "run_client"), "GetIPs:ok"))
          /\ UNCHANGED crashed
    /\ UNCHANGED <<imageMap, variant, quota, vmMap, podData, stateLock, vmMapLock, vms, closeCount,
                   now, created, removed, destroyFailed>>

\* lines 91-96: common.CreateClient(ip); only err != nil is checked
VboxRunCreateClient(p) ==
    /\ variant = "virtualbox" /\ Is(p, "run_client")
    /\ \/ Return(p, Log(g[p], "CreateClient:err"), "AgentUnreachable")
       \/ Set(p, [Log(At(p, "run_insert"), "CreateClient:nil") EXCEPT !.client = "nil"])
       \/ Set(p, [Log(At(p, "run_insert"), "CreateClient:ok") EXCEPT !.client = "conn"])
    /\ NoSharedChange

\* lines 98-121: Lock, insert, deferred Unlock, return the id
VboxRunInsert(p) ==
    /\ variant = "virtualbox" /\ Is(p, "run_insert")
    /\ MutexFree
    /\ LET k == g[p].vm IN
        /\ vmMap' = vmMap \cup {k}
        /\ podData' = [podData EXCEPT ![k] =
                          [NewPodData(k, g[p].labels, g[p].client)
                              EXCEPT !.vmState = "none", !.vmStateLastChecked = 0]]
        /\ created' = created \cup {k}
    /\ Return(p, Log(g[p], "insert"), "ok")
    /\ UNCHANGED <<imageMap, variant, quota, stateLock, vmMapLock, vms, closeCount, now,
                   crashed, removed, destroyFailed>>

\* StopPodSandbox lines 125-128: getPodData
VboxStopLookup(p) ==
    /\ variant = "virtualbox" /\ Is(p, "sp_lookup")
    /\ MutexFree
    /\ IF vboxGetPodData(g[p].id) = NoId
       THEN Return(p, g[p], "NotFound")
       ELSE Set(p, [At(p, "sp_stoppod") EXCEPT !.ptr = vboxGetPodData(g[p].id)])
    /\ NoSharedChange

\* StopPodSandbox lines 130-133: podData.StopPod(), return
VboxStopStopPod(p) ==
    /\ variant = "virtualbox" /\ Is(p, "sp_stoppod")
    /\ LET k == g[p].ptr IN
       IF StopPodBlocksForever(p, k)
       THEN /\ Set(p, At(p, "blocked"))
            /\ UNCHANGED podData
       ELSE /\ stateLock[k] = NoProc
            /\ podData' = [podData EXCEPT ![k] = StopPod(@)]
            /\ Return(p, g[p], "ok")
    /\ UNCHANGED <<imageMap, variant, quota, vmMap, stateLock, vmMapLock, vms, closeCount,
                   now, crashed, created, removed, destroyFailed>>

\* RemovePodSandbox lines 137-140: getPodData
VboxRemoveLookup(p) ==
    /\ variant = "virtualbox" /\ Is(p, "rm_lookup")
    /\ MutexFree
    /\ IF vboxGetPodData(g[p].id) = NoId
       THEN Return(p, g[p], "NotFound")
       ELSE Set(p, [At(p, "rm_destroy") EXCEPT !.ptr = vboxGetPodData(g[p].id)])
    /\ NoSharedChange

\* mutant of VboxRemoveDestroy: the error of Destroy is ignored
VboxRemoveDestroyIgnoresError(p) ==
    /\ variant = "virtualbox" /\ Is(p, "rm_destroy")
    /\ \/ /\ Set(p, Log(At(p, "rm_close"), "Destroy:err"))
          /\ UNCHANGED vms
       \/ /\ vms' = Destroyed(g[p].ptr)
          /\ Set(p, Log(At(p, "rm_close"), "Destroy:ok"))
    /\ UNCHANGED <<imageMap, variant, quota, vmMap, podData, stateLock, vmMapLock, closeCount,
                   now, crashed, created, removed, destroyFailed>>

\* RemovePodSandbox lines 142-144: podData.vm.Destroy()
VboxRemoveDestroy(p) ==
    /\ variant = "virtualbox" /\ Is(p, "rm_destroy")
    /\ \/ /\ Return(p, Log(g[p], "Destroy:err"), "DestroyError")
          /\ destroyFailed' = destroyFailed \cup {g[p].ptr}
          /\ UNCHANGED vms
       \/ /\ vms' = Destroyed(g[p].ptr)
          /\ Set(p, Log(At(p, "rm_close"), "Destroy:ok"))
          /\ UNCHANGED destroyFailed
    /\ UNCHANGED <<imageMap, variant, quota, vmMap, podData, stateLock, vmMapLock, closeCount,
                   now, crashed, created, removed>>

\* RemovePodSandbox line 146: podData.RemovePod()
VboxRemoveClose(p) ==
    /\ variant = "virtualbox" /\ Is(p, "rm_close")
    /\ RemovePod(p, g[p].ptr, "rm_delete")
    /\ UNCHANGED <<imageMap, variant, quota, vmMap, podData, stateLock, vmMapLock, vms, now,
                   created, removed, destroyFailed>>

\* RemovePodSandbox lines 148-153: Lock, delete, Unlock, return
VboxRemoveDelete(p) ==
    /\ variant = "virtualbox" /\ Is(p, "rm_delete")
    /\ MutexFree
    /\ vmMap' = vmMap \ {g[p].id}
    /\ removed' = removed \cup {g[p].id}
    /\ Return(p, Log(g[p], "delete"), "ok")
    /\ UNCHANGED <<imageMap, variant, quota, podData, stateLock, vmMapLock, vms, closeCount,
                   now, crashed, created, destroyFailed>>

\* PodSandboxStatus lines 157-160: getPodData
VboxStatusLookup(p) ==
    /\ variant = "virtualbox" /\ Is(p, "st_lookup")
    /\ MutexFree
    /\ IF vboxGetPodData(g[p].id) = NoId
       THEN Return(p, g[p], "NotFound")
       ELSE Set(p, [At(p, "st_statelock") EXCEPT !.ptr = vboxGetPodData(g[p].id)])
    /\ NoSharedChange

\* PodSandboxStatus lines 162-170: StateLock.Lock(), PodStatus, call GetState
VboxStatusStateLock(p) ==
    /\ variant = "virtualbox" /\ Is(p, "st_statelock")
    /\ stateLock[g[p].ptr] = NoProc
    /\ stateLock' = [stateLock EXCEPT ![g[p].ptr] = p]
    /\ Set(p, Log(At(p, "st_getstate"), "GetState"))
    /\ UNCHANGED <<imageMap, variant, quota, vmMap, podData, vmMapLock, vms, closeCount,
                   now, crashed, created, removed, destroyFailed>>

\* the state PodSandboxStatus and ListPodSandbox report: a local copy of
\* PodState, NOTREADY when the instance is not running
vboxState(pd, vmState) == IF vmState # "running" THEN "NOTREADY" ELSE pd.PodState

\* PodSandboxStatus lines 170-186: GetState returns; deferred StateLock.Unlock
VboxStatusGetState(p) ==
    /\ variant = "virtualbox" /\ Is(p, "st_getstate")
    /\ \E out \in GetStateOutcomes(g[p].ptr) :
          IF out.err
          THEN Return(p, g[p], "StateError")
          ELSE Return(p, [g[p] EXCEPT !.rstate = vboxState(podData[g[p].ptr], out.state)], "ok")
    /\ stateLock' = [stateLock EXCEPT ![g[p].ptr] = NoProc]
    /\ UNCHANGED <<imageMap, variant, quota, vmMap, podData, vmMapLock, vms, closeCount,
                   now, crashed, created, removed, destroyFailed>>

\* ListPodSandbox lines 190-197: Lock (held until return), start the range
VboxListLock(p) ==
    /\ variant = "virtualbox" /\ Is(p, "ls_lock")
    /\ MutexFree
    /\ vmMapLock' = MutexHeld(p)
    /\ Set(p, [At(p, "ls_next") EXCEPT !.todo = vmMap])
    /\ UNCHANGED <<imageMap, variant, quota, vmMap, podData, stateLock, vms, closeCount,
                   now, crashed, created, removed, destroyFailed>>

\* ListPodSandbox lines 197-199, 236-242: the next record and its GetState
\* call, or the end of the range: deferred Unlock, return
VboxListNext(p) ==
    /\ variant = "virtualbox" /\ Is(p, "ls_next")
    /\ IF g[p].todo = {}
       THEN /\ vmMapLock' = WUnlocked
            /\ Return(p, g[p], "ok")
       ELSE /\ \E k \in g[p].todo :
                  Set(p, [Log(At(p, "ls_getstate"), "GetState")
                             EXCEPT !.ptr = k, !.todo = @ \ {k}])
            /\ UNCHANGED vmMapLock
    /\ UNCHANGED <<imageMap, variant, quota, vmMap, podData, stateLock, vms, closeCount,
                   now, crashed, created, removed, destroyFailed>>

\* ListPodSandbox lines 209-226: TRUE means "filter the record out"
vboxFilter(pd, id, podState, filter) ==
    IF filter.nil THEN FALSE
    ELSE \/ (filter.Id # NoId /\ filter.Id # id)
         \/ GetState(filter) # podState
         \/ FilterByLabels(pd, filter.LabelSelector)

\* ListPodSandbox lines 199-234: GetState returns; an error skips the record
VboxListGetState(p) ==
    /\ variant = "virtualbox" /\ Is(p, "ls_getstate")
    /\ \E out \in GetStateOutcomes(g[p].ptr) :
          LET k == g[p].ptr
              pd == podData[k]
              podState == vboxState(pd, out.state)
          IN Set(p, [g[p] EXCEPT !.pc = "ls_next",
                                 !.items = IF out.err \/ vboxFilter(pd, k, podState, g[p].filter)
                                           THEN @
                                           ELSE Append(@, GetSandbox(pd, podState))])
    /\ NoSharedChange

\* GetClient lines 255-263
VboxGetClient(p) ==
    /\ variant = "virtualbox" /\ Is(p, "gc_lookup")
    /\ MutexFree
    /\ IF vboxGetPodData(g[p].id) = NoId
       THEN Return(p, g[p], "NotFound")
       ELSE Return(p, [g[p] EXCEPT !.ptr = vboxGetPodData(g[p].id)], "ok")
    /\ NoSharedChange

VboxNext(p) ==
    \/ VboxRunProvision(p) \/ VboxRunGetIPs(p) \/ VboxRunCreateClient(p)
    \/ VboxRunInsert(p)
    \/ VboxStopLookup(p) \/ VboxStopStopPod(p)
    \/ VboxRemoveLookup(p) \/ VboxRemoveDestroy(p) \/ VboxRemoveClose(p)
    \/ VboxRemoveDelete(p)
    \/ VboxStatusLookup(p) \/ VboxStatusStateLock(p) \/ VboxStatusGetState(p)
    \/ VboxListLock(p) \/ VboxListNext(p) \/ VboxListGetState(p)
    \/ VboxGetClient(p)

Calls(p) ==
    \/ CallRunPodSandbox(p) \/ CallStopPodSandbox(p) \/ CallRemovePodSandbox(p)
    \/ CallPodSandboxStatus(p) \/ CallListPodSandbox(p) \/ CallGetClient(p)

Next ==
    \/ \E p \in Procs : Calls(p) \/ AwsNext(p) \/ VboxNext(p)
    \/ \E k \in Ids : BackendChange(k)
    \/ Tick

Spec == Init /\ [][Next]_vars

\* ---- PodData.Filter and the virtualbox filter applied to one record ----------
\* every label map, on the record and in the selector
FilterRecords ==
    {[Id |-> 1, Labels |-> l, Client |-> "conn", PodState |-> st,
      vmState |-> "running", vmStateLastChecked |-> 0] :
        l \in LabelMaps, st \in {"READY", "NOTREADY"}}
AllFilters ==
    {NilFilter} \cup {MkFilter(i, st, sel) : i \in {NoId} \cup Ids,
                                              st \in {"unset", "READY", "NOTREADY"},
                                              sel \in LabelMaps}

FilterInit ==
    /\ variant \in Variants
    /\ quota = Quota
    /\ vmMap = {1}
    /\ \E pd \in FilterRecords : podData = [k \in Ids |-> IF k = 1 THEN pd ELSE NoPod]
    /\ stateLock = [k \in Ids |-> NoProc]
    /\ vmMapLock = [w |-> NoProc, held |-> FALSE, readers |-> {}]
    /\ \E st \in {"running", "stopped"} : vms = [k \in Ids |-> IF k = 1 THEN st ELSE "none"]
    /\ closeCount = [k \in Ids |-> 0]
    /\ now = 0
    /\ crashed = FALSE
    /\ \E f \in AllFilters :
          g = [p \in Procs |-> IF p = 1
                               THEN [IdleG EXCEPT !.pc = "filter", !.op = "List",
                                                  !.filter = f, !.ptr = 1]
                               ELSE IdleG]
    /\ last = NoCallYet
    /\ created = {1}
    /\ removed = {}
    /\ destroyFailed = {}
    /\ hist = NoHist(FALSE)
    /\ imageMap = {}

\* aws.go filter lines 282-289: podData.Filter decides, GetSandbox is returned
ApplyFilter(p) ==
    /\ variant = "aws" /\ Is(p, "filter")
    /\ LET pd == podData[g[p].ptr] IN
       Set(p, [g[p] EXCEPT !.pc = "filtered",
                           !.items = IF Filter(pd, g[p].filter) THEN <<>>
                                     ELSE <<GetSandbox(pd, pd.PodState)>>])
    /\ NoSharedChange

\* virtualbox.go ListPodSandbox lines 204-233 for one record whose GetState
\* succeeded
ApplyVboxFilter(p) ==
    /\ variant = "virtualbox" /\ Is(p, "filter")
    /\ LET k == g[p].ptr
           pd == podData[k]
           podState == vboxState(pd, vms[k])
       IN Set(p, [g[p] EXCEPT !.pc = "filtered",
                              !.items = IF vboxFilter(pd, k, podState, g[p].filter) THEN <<>>
                                        ELSE <<GetSandbox(pd, podState)>>])
    /\ NoSharedChange

FilterNext == \E p \in Procs : ApplyFilter(p) \/ ApplyVboxFilter(p)

SpecFilter == FilterInit /\ [][FilterNext]_vars

\* ---- aws.go: the refresh of the cached backend state, with its history ------
RefreshFilters == {NilFilter, MkFilter(NoId, "READY", EmptyLabels)}

RefreshInit ==
    /\ variant = "aws"
    /\ quota = Quota
    /\ vmMap = {}
    /\ podData = [k \in Ids |-> NoPod]
    /\ stateLock = [k \in Ids |-> NoProc]
    /\ vmMapLock = [w |-> NoProc, held |-> FALSE, readers |-> {}]
    /\ vms = [k \in Ids |-> "none"]
    /\ closeCount = [k \in Ids |-> 0]
    /\ now = 0
    /\ crashed = FALSE
    /\ g = [p \in Procs |-> IdleG]
    /\ last = NoCallYet
    /\ created = {}
    /\ removed = {}
    /\ destroyFailed = {}
    /\ hist = NoHist(TRUE)
    /\ imageMap = {}

\* the requests of this specification: one RunPodSandbox, then PodSandboxStatus
\* of its sandbox and ListPodSandbox without filter or for READY
RefreshCall(p) ==
    /\ \/ Call(p, [IdleG EXCEPT !.pc = "run_provision", !.op = "Run"])
       \/ /\ 1 \in vmMap
          /\ Call(p, [IdleG EXCEPT !.pc = "st_lookup", !.op = "Status", !.id = 1,
                                    !.down0 = Down, !.t0 = now])
       \/ /\ 1 \in vmMap
          /\ \E f \in RefreshFilters :
                Call(p, [IdleG EXCEPT !.pc = "ls_lock", !.op = "List", !.filter = f,
                                      !.down0 = Down, !.t0 = now])
    /\ NoSharedChange

RefreshNext ==
    \/ \E p \in Procs :
          \/ RefreshCall(p)
          \/ AwsRunProvision(p) \/ AwsRunGetIPs(p) \/ AwsRunCreateClient(p)
          \/ AwsRunDestroy(p) \/ AwsRunLock(p) \/ AwsRunInsert(p)
          \/ AwsStatusLookup(p) \/ AwsStatusStateLock(p) \/ AwsStatusUpdate(p)
          \/ AwsStatusGetState(p)
          \/ AwsListLock(p) \/ AwsListNext(p) \/ AwsListStateLock(p)
          \/ AwsListUpdate(p) \/ AwsListGetState(p)
    \/ \E k \in Ids : BackendChange(k)
    \/ Tick

SpecRefresh == RefreshInit /\ [][RefreshNext]_vars

\* ---- concurrent RunPodSandbox calls, then ListPodSandbox ---------------------
CreateQuota == 2

CreateInit ==
    /\ variant \in Variants
    /\ quota = CreateQuota
    /\ vmMap = {}
    /\ podData = [k \in Ids |-> NoPod]
    /\ stateLock = [k \in Ids |-> NoProc]
    /\ vmMapLock = [w |-> NoProc, held |-> FALSE, readers |-> {}]
    /\ vms = [k \in Ids |-> "none"]
    /\ closeCount = [k \in Ids |-> 0]
    /\ now = 0
    /\ crashed = FALSE
    /\ g = [p \in Procs |-> IdleG]
    /\ last = NoCallYet
    /\ created = {}
    /\ removed = {}
    /\ destroyFailed = {}
    /\ hist = NoHist(TRUE)
    /\ imageMap = {}

\* the requests of this specification: RunPodSandbox, and ListPodSandbox
\* without filter
CreateCall(p) ==
    /\ \/ \E l \in RunLabels :
             Call(p, [IdleG EXCEPT !.pc = "run_provision", !.op = "Run", !.labels = l])
       \/ Call(p, [IdleG EXCEPT !.pc = "ls_lock", !.op = "List"])
    /\ NoSharedChange

CreateNext ==
    \/ Tick
    \/ \E p \in Procs :
        \/ CreateCall(p)
        \/ AwsRunProvision(p) \/ AwsRunGetIPs(p) \/ AwsRunCreateClient(p)
        \/ AwsRunDestroy(p) \/ AwsRunLock(p) \/ AwsRunInsert(p)
        \/ AwsListLock(p) \/ AwsListNext(p) \/ AwsListStateLock(p)
        \/ AwsListUpdate(p) \/ AwsListGetState(p)
        \/ VboxRunProvision(p) \/ VboxRunGetIPs(p) \/ VboxRunCreateClient(p)
        \/ VboxRunInsert(p)
        \/ VboxListLock(p) \/ VboxListNext(p) \/ VboxListGetState(p)

SpecCreate == CreateInit /\ [][CreateNext]_vars

\* ---- the Manager (part_001): container requests ------------------------------
MaxCidLen == 3
\* container ids are strings over these characters; "1" and "2" are the names
\* of the instances 1 and 2
CidChars == {"1", "2", ":", "t"}
ContainerIds == UNION {[1..n -> CidChars] : n \in 1..MaxCidLen}
AgentAnswers == {"resp", "AgentError"}

\* mutant of FirstSegment: the container id is not split
WholeId(s) == s

\* strings.Split(req.GetContainerId(), ":")[0]
FirstSegment(s) ==
    IF \E i \in DOMAIN s : s[i] = ":"
    THEN SubSeq(s, 1, (CHOOSE i \in DOMAIN s : s[i] = ":" /\ \A j \in 1..(i - 1) : s[j] # ":") - 1)
    ELSE s

\* the key of vmMap a sandbox name is, if any
NameToId(name) == IF name = <<"1">> THEN 1 ELSE IF name = <<"2">> THEN 2 ELSE NoId

\* Manager.getClient(podId): the provider's GetClient (aws.go 292-307)
getClient(podId) ==
    IF getPodData(podId) = NoId
    THEN [err |-> TRUE, ptr |-> NoId, client |-> "nil"]
    ELSE [err |-> FALSE, ptr |-> getPodData(podId), client |-> podData[getPodData(podId)].Client]

RouterInit ==
    /\ variant = "aws"
    /\ quota = Quota
    /\ vmMap = {}
    /\ podData = [k \in Ids |-> NoPod]
    /\ stateLock = [k \in Ids |-> NoProc]
    /\ vmMapLock = [w |-> NoProc, held |-> FALSE, readers |-> {}]
    /\ vms = [k \in Ids |-> "none"]
    /\ closeCount = [k \in Ids |-> 0]
    /\ now = 0
    /\ crashed = FALSE
    /\ g = [p \in Procs |-> IdleG]
    /\ last = NoCallYet
    /\ created = {}
    /\ removed = {}
    /\ destroyFailed = {}
    /\ hist = NoHist(FALSE)
    /\ imageMap = {}

\* the requests of this specification: RunPodSandbox and ContainerStatus
RouterCall(p) ==
    /\ \/ Call(p, [IdleG EXCEPT !.pc = "run_provision", !.op = "Run"])
       \/ \E c \in ContainerIds :
             Call(p, [IdleG EXCEPT !.pc = "cs_resolve", !.op = "ContainerStatus", !.cid = c])
    /\ NoSharedChange

\* ContainerStatus lines 235-242: split, m.getClient(podId); GetClient holds
\* the read lock of vmMapLock while it looks up
RouterResolve(p) ==
    /\ variant = "aws" /\ Is(p, "cs_resolve")
    /\ RLockFree
    /\ LET podId == NameToId(FirstSegment(g[p].cid))
           c == getClient(podId)
       IN IF c.err
          THEN Return(p, [g[p] EXCEPT !.id = podId], "SandboxNotFound")
          ELSE Set(p, [g[p] EXCEPT !.pc = "cs_forward", !.id = podId, !.ptr = c.ptr,
                                   !.client = c.client])
    /\ NoSharedChange

\* ContainerStatus lines 244-248: client.ContainerStatus(req), return what the
\* agent answered
RouterForward(p) ==
    /\ variant = "aws" /\ Is(p, "cs_forward")
    /\ \E a \in AgentAnswers :
          Return(p, [Log(g[p], "Forward") EXCEPT !.sent = g[p].cid, !.answer = a], a)
    /\ NoSharedChange

RouterNext ==
    \E p \in Procs :
        \/ RouterCall(p)
        \/ AwsRunProvision(p) \/ AwsRunGetIPs(p) \/ AwsRunCreateClient(p)
        \/ AwsRunDestroy(p) \/ AwsRunLock(p) \/ AwsRunInsert(p)
        \/ RouterResolve(p) \/ RouterForward(p)

SpecRouter == RouterInit /\ [][RouterNext]_vars

\* ---- the router next to RemovePodSandbox --------------------------------------
\* the requests of this specification: RunPodSandbox, ContainerStatus for a
\* container of a sandbox, RemovePodSandbox
RouteRemoveCall(p) ==
    /\ \/ Call(p, [IdleG EXCEPT !.pc = "run_provision", !.op = "Run"])
       \/ \E k \in Ids :
             \/ Call(p, [IdleG EXCEPT !.pc = "cs_resolve", !.op = "ContainerStatus",
                                      !.cid = IF k = 1 THEN <<"1", ":", "t">> ELSE <<"2", ":", "t">>])
             \/ Call(p, [IdleG EXCEPT !.pc = "rm_lookup", !.op = "Remove", !.id = k])
    /\ NoSharedChange

RouteRemoveNext ==
    \E p \in Procs :
        \/ RouteRemoveCall(p)
        \/ AwsRunProvision(p) \/ AwsRunGetIPs(p) \/ AwsRunCreateClient(p)
        \/ AwsRunDestroy(p) \/ AwsRunLock(p) \/ AwsRunInsert(p)
        \/ AwsRemoveLock(p) \/ AwsRemoveLookup(p) \/ AwsRemoveStateLock(p)
        \/ AwsRemoveDestroy(p) \/ AwsRemoveClose(p) \/ AwsRemoveDelete(p)
        \/ RouterResolve(p) \/ RouterForward(p)

SpecRouteRemove == RouterInit /\ [][RouteRemoveNext]_vars

\* ---- part_000: the aws provider with one sync.Mutex ---------------------------
\* vmMapLock is a sync.Mutex here: vmMapLock.w is its holder and nobody is a
\* reader. RunPodSandbox up to the Lock is the code of aws.go. Unlock of a
\* mutex that is not locked is a fatal error of the Go runtime; Unlock of a
\* mutex that another goroutine has locked releases it.

\* the names of a set of keys, in some order
RECURSIVE NameSeq(_)
NameSeq(keys) ==
    IF keys = {} THEN <<>>
    ELSE LET k == CHOOSE k \in keys : TRUE
         IN <<[Id |-> k]>> \o NameSeq(keys \ {k})

\* the requests of this specification
P0Call(p) ==
    /\ \/ Call(p, [IdleG EXCEPT !.pc = "run_provision", !.op = "Run"])
       \/ \E k \in Ids : Call(p, [IdleG EXCEPT !.pc = "p0_st_lookup", !.op = "Status", !.id = k])
       \/ Call(p, [IdleG EXCEPT !.pc = "p0_ls_lock", !.op = "List"])
       \/ Call(p, [IdleG EXCEPT !.pc = "p0_gv_read", !.op = "GetVMList"])
    /\ NoSharedChange

\* RunPodSandbox line 139: vmMapLock.Lock()
P0RunLock(p) ==
    /\ variant = "aws" /\ Is(p, "run_lock")
    /\ MutexFree
    /\ vmMapLock' = MutexHeld(p)
    /\ Set(p, At(p, "p0_run_insert"))
    /\ UNCHANGED <<imageMap, variant, quota, vmMap, podData, stateLock, vms, closeCount,
                   now, crashed, created, removed, destroyFailed>>

\* RunPodSandbox lines 140-163: insert, return through the deferred Unlock
P0RunInsert(p) ==
    /\ variant = "aws" /\ Is(p, "p0_run_insert")
    /\ LET k == g[p].vm IN
        /\ vmMap' = vmMap \cup {k}
        /\ podData' = [podData EXCEPT ![k] = NewPodData(k, g[p].labels, "conn")]
        /\ created' = created \cup {k}
    /\ IF vmMapLock.w = NoProc
       THEN crashed' = TRUE /\ UNCHANGED vmMapLock /\ Set(p, Log(g[p], "Unlock:unlocked"))
       ELSE vmMapLock' = WUnlocked /\ UNCHANGED crashed /\ Return(p, Log(g[p], "insert"), "ok")
    /\ UNCHANGED <<imageMap, variant, quota, stateLock, vms, closeCount, now, removed, destroyFailed>>

\* PodSandboxStatus lines 218-221: getPodData (lines 75-84, Lock and Unlock
\* around the lookup)
P0StatusLookup(p) ==
    /\ variant = "aws" /\ Is(p, "p0_st_lookup")
    /\ MutexFree
    /\ IF getPodData(g[p].id) = NoId
       THEN Return(p, g[p], "NotFound")
       ELSE Set(p, [At(p, "p0_st_statelock") EXCEPT !.ptr = getPodData(g[p].id)])
    /\ NoSharedChange

\* PodSandboxStatus line 223: podData.StateLock.Lock(); line 226 calls
\* updateVMState
P0StatusStateLock(p) ==
    /\ variant = "aws" /\ Is(p, "p0_st_statelock")
    /\ stateLock[g[p].ptr] = NoProc
    /\ stateLock' = [stateLock EXCEPT ![g[p].ptr] = p]
    /\ Set(p, At(p, "p0_update"))
    /\ UNCHANGED <<imageMap, variant, quota, vmMap, podData, vmMapLock, vms, closeCount,
                   now, crashed, created, removed, destroyFailed>>

\* updateVMState line 199: podData.StateLock.Lock(). sync.Mutex is not
\* reentrant: a goroutine that holds the lock waits for itself for ever. Both
\* callers hold it, so lines 201-214 are never reached.
P0UpdateVMState(p) ==
    /\ variant = "aws" /\ Is(p, "p0_update")
    /\ IF stateLock[g[p].ptr] = p
       THEN Set(p, At(p, "blocked")) /\ UNCHANGED stateLock
       ELSE /\ stateLock[g[p].ptr] = NoProc
            /\ stateLock' = [stateLock EXCEPT ![g[p].ptr] = p]
            /\ Set(p, At(p, "p0_refresh"))
    /\ UNCHANGED <<imageMap, variant, quota, vmMap, podData, vmMapLock, vms, closeCount,
                   now, crashed, created, removed, destroyFailed>>

\* ListPodSandbox lines 243-244: Lock, held until the return
P0ListLock(p) ==
    /\ variant = "aws" /\ Is(p, "p0_ls_lock")
    /\ MutexFree
    /\ vmMapLock' = MutexHeld(p)
    /\ Set(p, [At(p, "p0_ls_next") EXCEPT !.todo = vmMap])
    /\ UNCHANGED <<imageMap, variant, quota, vmMap, podData, stateLock, vms, closeCount,
                   now, crashed, created, removed, destroyFailed>>

\* ListPodSandbox lines 248, 270-277: the next record, or the end of the
\* range: return through the deferred Unlock
P0ListNext(p) ==
    /\ variant = "aws" /\ Is(p, "p0_ls_next")
    /\ IF g[p].todo = {}
       THEN IF vmMapLock.w = NoProc
            THEN crashed' = TRUE /\ UNCHANGED vmMapLock /\ Set(p, Log(g[p], "Unlock:unlocked"))
            ELSE vmMapLock' = WUnlocked /\ UNCHANGED crashed /\ Return(p, g[p], "ok")
       ELSE /\ \E k \in g[p].todo :
                  Set(p, [At(p, "p0_ls_statelock") EXCEPT !.ptr = k, !.todo = @ \ {k}])
            /\ UNCHANGED <<vmMapLock, crashed>>
    /\ UNCHANGED <<imageMap, variant, quota, vmMap, podData, stateLock, vms, closeCount,
                   now, created, removed, destroyFailed>>

\* ListPodSandbox line 249: podData.StateLock.Lock(); line 252 calls
\* updateVMState
P0ListStateLock(p) ==
    /\ variant = "aws" /\ Is(p, "p0_ls_statelock")
    /\ stateLock[g[p].ptr] = NoProc
    /\ stateLock' = [stateLock EXCEPT ![g[p].ptr] = p]
    /\ Set(p, At(p, "p0_update"))
    /\ UNCHANGED <<imageMap, variant, quota, vmMap, podData, vmMapLock, vms, closeCount,
                   now, crashed, created, removed, destroyFailed>>

\* GetVMList lines 302-310: Lock, defer Unlock, collect the names, Unlock
P0GetVMListRead(p) ==
    /\ variant = "aws" /\ Is(p, "p0_gv_read")
    /\ MutexFree
    /\ Set(p, [At(p, "p0_gv_unlock") EXCEPT !.items = NameSeq(vmMap)])
    /\ NoSharedChange

\* GetVMList line 312: return, which runs the deferred Unlock of line 303
P0GetVMListReturn(p) ==
    /\ variant = "aws" /\ Is(p, "p0_gv_unlock")
    /\ IF vmMapLock.w = NoProc
       THEN crashed' = TRUE /\ UNCHANGED vmMapLock /\ Set(p, Log(g[p], "Unlock:unlocked"))
       ELSE vmMapLock' = WUnlocked /\ UNCHANGED crashed /\ Return(p, Log(g[p], "Unlock:other"), "ok")
    /\ UNCHANGED <<imageMap, variant, quota, vmMap, podData, stateLock, vms, closeCount,
                   now, created, removed, destroyFailed>>

P0Next ==
    \E p \in Procs :
        \/ P0Call(p)
        \/ AwsRunProvision(p) \/ AwsRunGetIPs(p) \/ AwsRunCreateClient(p)
        \/ AwsRunDestroy(p) \/ P0RunLock(p) \/ P0RunInsert(p)
        \/ P0StatusLookup(p) \/ P0StatusStateLock(p) \/ P0UpdateVMState(p)
        \/ P0ListLock(p) \/ P0ListNext(p) \/ P0ListStateLock(p)
        \/ P0GetVMListRead(p) \/ P0GetVMListReturn(p)

SpecPart0 == RouterInit /\ [][P0Next]_vars

\* ---- the image provider (gcp_image.go) --------------------------------------
\* An image reference is a string; the model keeps it as the sequence of its
\* pieces, where "/" and ":" are the two characters the code splits on and
\* every other piece is a run of other characters.
MaxHits == 2
ImageRefs == {<<"a">>, <<"a", ":", "latest">>, <<"a", ":", "v">>,
              <<"p", "/", "a">>, <<"p", "/", "a", "/", "a">>}
\* compute.Image.ArchiveSizeBytes of a catalog entry
ImageSizes == {1, 2}

\* strings.Split(s, sep): the pieces between the separators, in order
RECURSIVE Split(_, _)
Split(s, sep) ==
    IF \E i \in DOMAIN s : s[i] = sep
    THEN LET i == CHOOSE i \in DOMAIN s : s[i] = sep /\ \A j \in 1..(i - 1) : s[j] # sep
         IN <<SubSeq(s, 1, i - 1)>> \o Split(SubSeq(s, i + 1, Len(s)), sep)
    ELSE <<s>>

\* ImageStatus lines 80-83: a name that strings.Split(name, ":") leaves in one
\* piece gets ":latest" appended
NormalizeRef(name) ==
    IF Len(Split(name, ":")) = 1 THEN name \o <<":", "latest">> ELSE name

\* toRuntimeAPIImage lines 106-121 (a catalog item is never nil)
toRuntimeAPIImage(image) == [Id |-> image.Name, Size |-> image.ArchiveSizeBytes]

\* the entries of the directory under the key ref: p.imageMap[ref]
ImagesAt(dir, ref) == {e \in dir : e.ref = ref}
\* mutant of PutImage: the entry that was under the key stays
PutImageKeepsOld(dir, ref, image) == dir \cup {[ref |-> ref, image |-> image]}

\* p.imageMap[ref] = image
PutImage(dir, ref, image) == (dir \ ImagesAt(dir, ref)) \cup {[ref |-> ref, image |-> image]}
\* the images under the keys refs, in some order
RECURSIVE ImageSeq(_)
ImageSeq(entries) ==
    IF entries = {} THEN <<>>
    ELSE LET e == CHOOSE e \in entries : TRUE
         IN <<e.image>> \o ImageSeq(entries \ {e})

\* what Images.List(project).Filter("name eq " + name).Do() can return: an
\* error, or up to MaxHits catalog items with that name
CatalogResults(name) ==
    UNION {[1..n -> {[Name |-> name, ArchiveSizeBytes |-> z] : z \in ImageSizes}] : n \in 0..MaxHits}

NoPodChange == UNCHANGED <<variant, quota, vmMap, podData, stateLock, vmMapLock, vms,
                           closeCount, now, crashed, created, removed, destroyFailed>>

ImageInit ==
    /\ variant = "aws"
    /\ quota = Quota
    /\ vmMap = {}
    /\ podData = [k \in Ids |-> NoPod]
    /\ stateLock = [k \in Ids |-> NoProc]
    /\ vmMapLock = [w |-> NoProc, held |-> FALSE, readers |-> {}]
    /\ vms = [k \in Ids |-> "none"]
    /\ closeCount = [k \in Ids |-> 0]
    /\ now = 0
    /\ crashed = FALSE
    /\ g = [p \in Procs |-> IdleG]
    /\ last = NoCallYet
    /\ created = {}
    /\ removed = {}
    /\ destroyFailed = {}
    /\ hist = NoHist(FALSE)
    /\ imageMap = {}

\* a client sends an image request
ImageCall(p) ==
    /\ \E r \in ImageRefs :
          \/ Call(p, [IdleG EXCEPT !.pc = "pl_query", !.op = "PullImage", !.ref = r])
          \/ Call(p, [IdleG EXCEPT !.pc = "li_lookup", !.op = "ListImages", !.ref = r])
          \/ Call(p, [IdleG EXCEPT !.pc = "is_lookup", !.op = "ImageStatus", !.ref = r])
          \/ Call(p, [IdleG EXCEPT !.pc = "ri_delete", !.op = "RemoveImage", !.ref = r])
    /\ UNCHANGED imageMap /\ NoPodChange

\* ListImages without a filter
ImageCallListAll(p) ==
    /\ Call(p, [IdleG EXCEPT !.pc = "li_all", !.op = "ListImages"])
    /\ UNCHANGED imageMap /\ NoPodChange

\* PullImage lines 128-143: split the reference on "/", query the catalog; the
\* provider's lock is not held
PullQuery(p) ==
    /\ Is(p, "pl_query")
    /\ LET splits == Split(g[p].ref, "/")
       IN IF Len(splits) \notin {1, 2}
          THEN Return(p, g[p], "ParseError")
          ELSE \/ Return(p, Log(g[p], "Catalog:err"), "CatalogError")
               \/ \E items \in CatalogResults(splits[Len(splits)]) :
                     Set(p, [Log(g[p], "Catalog:ok") EXCEPT !.pc = "pl_insert", !.hits = items])
    /\ UNCHANGED imageMap /\ NoPodChange

\* PullImage lines 145-160: the switch on len(results.Items); the one arm that
\* writes takes the provider's lock for the write
PullInsert(p) ==
    /\ Is(p, "pl_insert")
    /\ IF Len(g[p].hits) = 0
       THEN Return(p, g[p], "NotFound") /\ UNCHANGED imageMap
       ELSE IF Len(g[p].hits) = 1
       THEN /\ imageMap' = PutImage(imageMap, g[p].ref, toRuntimeAPIImage(g[p].hits[1]))
            /\ Return(p, Log(g[p], "Insert"), "ok")
       ELSE Return(p, g[p], "AmbiguousImage") /\ UNCHANGED imageMap
    /\ NoPodChange

\* the key ListImages looks up for a filter naming image: lines 60-61
ListImagesKey(image) == image

\* ListImages lines 54-75 with req.Filter.Image set: the entry under the key,
\* if there is one
ListImagesFiltered(p) ==
    /\ Is(p, "li_lookup")
    /\ Return(p, [g[p] EXCEPT !.images = ImageSeq(ImagesAt(imageMap, ListImagesKey(g[p].ref)))], "ok")
    /\ UNCHANGED imageMap /\ NoPodChange

\* ListImages lines 66-74 without a filter: every image of the directory
ListImagesAll(p) ==
    /\ Is(p, "li_all")
    /\ Return(p, [g[p] EXCEPT !.images = ImageSeq(imageMap)], "ok")
    /\ UNCHANGED imageMap /\ NoPodChange

\* ImageStatus lines 77-104: normalize the name, ListImages with it as filter
ImageStatus(p) ==
    /\ Is(p, "is_lookup")
    /\ LET found == ImageSeq(ImagesAt(imageMap, ListImagesKey(NormalizeRef(g[p].ref))))
       IN IF Len(found) <= 1
          THEN Return(p, [g[p] EXCEPT !.images = found], "ok")
          ELSE Return(p, g[p], "ImageStatusError")
    /\ UNCHANGED imageMap /\ NoPodChange

\* RemoveImage lines 163-170
RemoveImage(p) ==
    /\ Is(p, "ri_delete")
    /\ imageMap' = imageMap \ ImagesAt(imageMap, g[p].ref)
    /\ Return(p, Log(g[p], "Delete"), "ok")
    /\ NoPodChange

ImageNext ==
    \E p \in Procs :
        \/ ImageCall(p) \/ ImageCallListAll(p)
        \/ PullQuery(p) \/ PullInsert(p)
        \/ ListImagesFiltered(p) \/ ListImagesAll(p)
        \/ ImageStatus(p) \/ RemoveImage(p)

SpecImage == ImageInit /\ [][ImageNext]_vars

\* ---- a longer time line -------------------------------------------------------
\* Enough time for a record's sample to be refreshed twice after its creation.
MonoMaxTime == 120
LateTick ==
    /\ ~crashed
    /\ variant = "aws"
    /\ now >= MaxTime
    /\ now + TickStep <= MonoMaxTime
    /\ now' = now + TickStep
    /\ UNCHANGED <<imageMap, variant, quota, vmMap, podData, stateLock, vmMapLock, vms, closeCount,
                   crashed, g, created, removed, destroyFailed>>
    /\ last' = NoCallYet
    /\ hist' = hist

MonoNext == Next \/ LateTick

SpecMono == Init /\ [][MonoNext]_vars

\* ---- three goroutines on two sandboxes ---------------------------------------
\* One goroutine refreshes (PodSandboxStatus of instance 1, ListPodSandbox),
\* one works on instance 2 (PodSandboxStatus, StopPodSandbox), one creates and
\* removes (RunPodSandbox, RemovePodSandbox).
NumBlockProcs == 3
BlockProcs == 1..NumBlockProcs

BlockInit ==
    /\ variant \in Variants
    /\ quota = CreateQuota
    /\ vmMap = {}
    /\ podData = [k \in Ids |-> NoPod]
    /\ stateLock = [k \in Ids |-> NoProc]
    /\ vmMapLock = [w |-> NoProc, held |-> FALSE, readers |-> {}]
    /\ vms = [k \in Ids |-> "none"]
    /\ closeCount = [k \in Ids |-> 0]
    /\ now = 0
    /\ crashed = FALSE
    /\ g = [p \in BlockProcs |-> IdleG]
    /\ last = NoCallYet
    /\ created = {}
    /\ removed = {}
    /\ destroyFailed = {}
    /\ hist = NoHist(FALSE)
    /\ imageMap = {}

BlockCall(p) ==
    /\ \/ /\ p = 1
          /\ \/ Call(p, [IdleG EXCEPT !.pc = "st_lookup", !.op = "Status", !.id = 1])
             \/ Call(p, [IdleG EXCEPT !.pc = "ls_lock", !.op = "List"])
       \/ /\ p = 2
          /\ \/ Call(p, [IdleG EXCEPT !.pc = "st_lookup", !.op = "Status", !.id = 2])
             \/ Call(p, [IdleG EXCEPT !.pc = "sp_lookup", !.op = "Stop", !.id = 2])
       \/ /\ p > 2
          /\ \/ Call(p, [IdleG EXCEPT !.pc = "run_provision", !.op = "Run"])
             \/ \E k \in Ids : Call(p, [IdleG EXCEPT !.pc = "rm_lookup", !.op = "Remove", !.id = k])
    /\ NoSharedChange

BlockNext ==
    \/ Tick
    \/ \E p \in BlockProcs :
        \/ BlockCall(p)
        \/ AwsRunProvision(p) \/ AwsRunGetIPs(p) \/ AwsRunCreateClient(p)
        \/ AwsRunDestroy(p) \/ AwsRunLock(p) \/ AwsRunInsert(p)
        \/ AwsStopLookup(p) \/ AwsStopStateLock(p) \/ AwsStopStopPod(p)
        \/ AwsRemoveLock(p) \/ AwsRemoveLookup(p) \/ AwsRemoveStateLock(p)
        \/ AwsRemoveDestroy(p) \/ AwsRemoveClose(p) \/ AwsRemoveDelete(p)
        \/ AwsStatusLookup(p) \/ AwsStatusStateLock(p) \/ AwsStatusUpdate(p)
        \/ AwsStatusGetState(p)
        \/ AwsListLock(p) \/ AwsListNext(p) \/ AwsListStateLock(p)
        \/ AwsListUpdate(p) \/ AwsListGetState(p)
        \/ VboxRunProvision(p) \/ VboxRunGetIPs(p) \/ VboxRunCreateClient(p)
        \/ VboxRunInsert(p)
        \/ VboxStopLookup(p) \/ VboxStopStopPod(p)
        \/ VboxRemoveLookup(p) \/ VboxRemoveDestroy(p) \/ VboxRemoveClose(p)
        \/ VboxRemoveDelete(p)
        \/ VboxStatusLookup(p) \/ VboxStatusStateLock(p) \/ VboxStatusGetState(p)
        \/ VboxListLock(p) \/ VboxListNext(p) \/ VboxListGetState(p)

SpecBlock == BlockInit /\ [][BlockNext]_vars

\* ---- what the claims are stated with ---------------------------------------
Has(effects, e) == \E i \in DOMAIN effects : effects[i] = e
Occurrences(items, x) == Cardinality({i \in DOMAIN items : items[i].Id = x})
IsPrefix(a, b) == Len(a) <= Len(b) /\ \A i \in DOMAIN a : a[i] = b[i]
\* the goroutine p takes this step
StepOf(p) == g'[p] # g[p]
\* every key of the selector is on the record with exactly its value
Matches(labels, sel) == \A k \in DOMAIN sel : k \in DOMAIN labels /\ labels[k] = sel[k]

\* C1: aws.go: once RunPodSandbox returned id x and while no RemovePodSandbox(x)
\* has succeeded, a ListPodSandbox without filter returns exactly one item with
\* id x, and PodSandboxStatus(x) returns a status and no error.
C1_CreatedIsListedAndHasStatus ==
    variant = "aws" =>
        \A x \in created \ removed :
            /\ (last.op = "List" /\ last.filter.nil) => Occurrences(last.items, x) = 1
            /\ (last.op = "Status" /\ last.id = x) =>
                   (last.ret = "ok" /\ last.rstate \in {"READY", "NOTREADY"})

C1_Witness ==
    /\ variant = "aws"
    /\ last.op = "List" /\ last.filter.nil /\ last.ret = "ok"
    /\ \E x \in created \ removed : Occurrences(last.items, x) = 1
    /\ \E x \in created \ removed : podData[x].PodState = "NOTREADY"

\* C2: aws.go: for an id that is not a key of the directory, StopPodSandbox,
\* RemovePodSandbox and PodSandboxStatus return NotFound, have issued no backend
\* call and closed no connection, and no step of them changes the directory, a
\* record, the backend or a connection.
C2_AbsentIdIsNotFound ==
    [][variant = "aws" =>
        \A p \in Procs :
            (StepOf(p) /\ g[p].op \in {"Stop", "Remove", "Status"} /\ g[p].id \notin vmMap)
            => /\ UNCHANGED <<vmMap, podData, vms, closeCount>>
               /\ \/ (g[p].pc = "rm_lookup" /\ g'[p].pc = "rm_locked")
                  \/ /\ g'[p].pc = "idle"
                     /\ last'.who = p /\ last'.ret = "NotFound"
                     /\ last'.effects = <<>>]_vars

C2_Witness ==
    /\ variant = "aws"
    /\ last.op = "Remove" /\ last.ret = "NotFound" /\ last.effects = <<>>
    /\ vmMap # {} /\ last.id \notin vmMap

\* C3: RunPodSandbox is all-or-nothing: when a step of provisioning fails the
\* call returns an error (it does not crash) and has inserted nothing, and an
\* entry of the directory always has its instance and its agent connection.
FailedSteps == {"Provision:err", "GetIPs:err", "GetIPs:empty", "CreateClient:err",
                "CreateClient:nil"}
FailedStep(effects) == \E e \in FailedSteps : Has(effects, e)
C3_RunAllOrNothing ==
    /\ \A k \in vmMap : podData[k].Client = "conn" /\ vms[k] # "none"
    /\ (last.op = "Run" /\ FailedStep(last.effects)) =>
           (last.ret # "ok" /\ ~Has(last.effects, "insert"))
    /\ \A p \in Procs : (g[p].op = "Run" /\ FailedStep(g[p].effects)) =>
           (~crashed /\ g[p].vm \notin vmMap)

\* C4: aws.go: when RunPodSandbox fails because the agent connection cannot be
\* established, the instance it provisioned has been destroyed when the error
\* is returned.
C4_FailedConnectDestroysVM ==
    (variant = "aws" /\ last.op = "Run" /\ last.ret = "AgentUnreachable")
        => vms[last.vm] = "destroyed"

\* C5: aws.go: when RemovePodSandbox(x) fails on a Destroy error the entry of x
\* stays, its connection is not closed and the locks are released, and a
\* PodSandboxStatus(x) that follows succeeds (a later RemovePodSandbox(x) can
\* succeed: C5_Witness).
C5_DestroyErrorKeepsEntry ==
    variant = "aws" =>
        /\ (last.op = "Remove" /\ last.ret = "DestroyError") =>
               /\ last.id \in vmMap
               /\ podData[last.id].Client = "conn" /\ closeCount[last.id] = 0
               /\ stateLock[last.id] = NoProc /\ vmMapLock.w # last.who
        /\ (last.op = "Status" /\ last.id \in destroyFailed \ removed) => last.ret = "ok"

C5_Witness ==
    /\ variant = "aws"
    /\ last.op = "Remove" /\ last.ret = "ok" /\ last.id \in destroyFailed

\* C6: aws.go: once RemovePodSandbox(x) has returned success, a RemovePodSandbox,
\* StopPodSandbox, PodSandboxStatus or GetClient of x that returns afterwards
\* returns NotFound, no ListPodSandbox returns x, and x is never a key of the
\* directory again.
C6_RemovedStaysRemoved ==
    [][variant = "aws" =>
        /\ removed \cap vmMap' = {}
        /\ (last'.op \in {"Remove", "Stop", "Status", "GetClient"} /\ last'.id \in removed)
               => last'.ret = "NotFound"
        /\ last'.op = "List" => \A x \in removed : Occurrences(last'.items, x) = 0]_vars

C6_Witness ==
    /\ variant = "aws"
    /\ last.op = "Status" /\ last.id \in removed /\ last.ret = "NotFound"

\* C7: a RemovePodSandbox destroys the instance, then closes the connection,
\* then deletes the entry; a connection is closed and an entry deleted only
\* after the Destroy of that call succeeded.
RemoveOrder == <<"Destroy:ok", "Close", "delete">>
C7_RemoveOrder ==
    /\ \A p \in Procs : g[p].op = "Remove" =>
           \/ IsPrefix(g[p].effects, RemoveOrder)
           \/ g[p].effects = <<"Destroy:ok", "Close:nil">>
    /\ last.op = "Remove" =>
           /\ last.ret = "ok" <=> last.effects = RemoveOrder
           /\ last.ret # "ok" => last.effects \in {<<>>, <<"Destroy:err">>}
    /\ \A k \in Ids : closeCount[k] > 0 => vms[k] = "destroyed"
    /\ \A k \in created \ vmMap : closeCount[k] > 0 /\ vms[k] = "destroyed"

C7_Witness ==
    /\ last.op = "Remove" /\ last.ret = "ok"
    /\ closeCount[last.id] = 1 /\ vms[last.id] = "destroyed" /\ last.id \notin vmMap

\* C8: aws.go: StopPodSandbox(x) for an x in the directory completes without
\* error, leaves the record NOTREADY and has released the directory lock and
\* the record lock.
C8_StopCompletes ==
    variant = "aws" =>
        /\ \A p \in Procs : g[p].op = "Stop" => g[p].pc # "blocked"
        /\ (last.op = "Stop" /\ last.ptr # NoId) =>
               /\ last.ret = "ok"
               /\ podData[last.ptr].PodState = "NOTREADY"
               /\ stateLock[last.ptr] # last.who
               /\ last.who \notin vmMapLock.readers

\* C9: no step of a StopPodSandbox changes anything but the PodState of its
\* record, which becomes NOTREADY: no backend call, no Close, no delete, the
\* cached sample and its time stay; a StopPodSandbox that found its record
\* returns success, and on a record that is NOTREADY already changes nothing.
C9_StopOnlySetsNotReady ==
    [][\A p \in Procs :
        (StepOf(p) /\ g[p].op = "Stop") =>
            /\ UNCHANGED <<vmMap, vms, closeCount>>
            /\ \A k \in Ids :
                  \/ podData'[k] = podData[k]
                  \/ k = g[p].ptr /\ podData'[k] = [podData[k] EXCEPT !.PodState = "NOTREADY"]
            /\ g'[p].pc # "idle" => g'[p].effects = <<>>
            /\ g'[p].pc = "idle" =>
                  /\ last'.who = p /\ last'.effects = <<>>
                  /\ last'.ptr # NoId =>
                        /\ last'.ret = "ok"
                        /\ podData'[last'.ptr].PodState = "NOTREADY"
                        /\ podData[last'.ptr].PodState = "NOTREADY" => podData' = podData]_vars

C9_Witness ==
    /\ last.op = "Stop" /\ last.ret = "ok"
    /\ last.before.PodState = "NOTREADY"
    /\ podData[last.ptr] = last.before

\* C10: a record is returned under a label selector only if it carries every
\* key of the selector with exactly the selector's value; an empty selector
\* excludes nothing (a record is then excluded by the id or the state
\* criterion only), and so does a nil filter.
C10_LabelSelector ==
    \A p \in Procs : g[p].pc = "filtered" =>
        LET f == g[p].filter
            pd == podData[g[p].ptr]
            returned == g[p].items # <<>>
            shown == IF variant = "aws" THEN pd.PodState ELSE vboxState(pd, vms[g[p].ptr])
        IN /\ (returned /\ ~f.nil) => Matches(pd.Labels, f.LabelSelector)
           /\ (~returned /\ ~f.nil /\ f.LabelSelector = EmptyLabels) =>
                  \/ (f.Id # NoId /\ f.Id # pd.Id)
                  \/ (IF f.State = "unset" THEN "READY" ELSE f.State) # shown
           /\ f.nil => returned
           /\ returned => g[p].items[1].Labels = pd.Labels

C10_Witness ==
    \E p \in Procs :
        /\ g[p].pc = "filtered" /\ g[p].items # <<>>
        /\ DOMAIN g[p].filter.LabelSelector = LabelKeys

\* C11: the state criterion applies only when the filter specifies a state: a
\* filter without a state returns every record that matches its id and its
\* labels, READY or NOTREADY.
C11_StateOnlyWhenSpecified ==
    \A p \in Procs : g[p].pc = "filtered" =>
        LET f == g[p].filter
            pd == podData[g[p].ptr]
        IN (/\ ~f.nil /\ f.State = "unset"
            /\ (f.Id = NoId \/ f.Id = pd.Id)
            /\ Matches(pd.Labels, f.LabelSelector)) => g[p].items # <<>>

\* C12 as stated: aws.go: a ListPodSandbox or PodSandboxStatus that arrives
\* while the backend instance of a record is not running (and it still is not
\* when the call returns) reports the record NOTREADY.
C12_NotRunningIsNotReady ==
    /\ (/\ last.op = "Status" /\ last.ret = "ok"
        /\ last.ptr \in last.down0 /\ vms[last.ptr] # "running")
           => last.rstate = "NOTREADY"
    /\ (last.op = "List" /\ last.ret = "ok") =>
           \A i \in DOMAIN last.items :
               (last.items[i].Id \in last.down0 /\ vms[last.items[i].Id] # "running")
                   => last.items[i].State = "NOTREADY"

\* the step in which updateVMState returns to PodSandboxStatus or to filter
RefreshPcs == {"st_update", "st_getstate", "ls_update", "ls_getstate"}
Sampled(p) ==
    /\ StepOf(p) /\ g[p].pc \in RefreshPcs
    /\ g'[p].pc \notin {"st_getstate", "ls_getstate"}
\* the calls the goroutine has logged after that step
EffectsAfter(p) == IF g'[p].pc = "idle" THEN last'.effects ELSE g'[p].effects
Newest(effects) == IF effects = <<>> THEN "none" ELSE effects[Len(effects)]

\* C12 as amended: aws.go: whenever the state updateVMState yields for a
\* record in PodSandboxStatus or ListPodSandbox is not "running", the record
\* is stored and reported NOTREADY and is not returned for a READY filter; that
\* state is the backend's when the sample was older than 30 seconds and GetState
\* succeeded, and the cached sample otherwise.
C12_SampleNotRunningIsNotReady ==
    [][\A p \in Procs : Sampled(p) =>
          LET k == g[p].ptr
              refreshed == Newest(EffectsAfter(p)) = "GetState:ok"
          IN /\ refreshed => podData'[k].vmState = vms[k]
             /\ ~refreshed => podData'[k].vmState = podData[k].vmState
             /\ podData'[k].vmState # "running" =>
                   /\ podData'[k].PodState = "NOTREADY"
                   /\ g[p].op = "Status" => last'.rstate = "NOTREADY"
                   /\ g[p].op = "List" =>
                         \/ g'[p].items = g[p].items
                         \/ /\ g[p].filter.nil
                            /\ g'[p].items = Append(g[p].items,
                                   [Id |-> k, State |-> "NOTREADY",
                                    Labels |-> podData[k].Labels])]_vars

C12_Witness ==
    /\ last.op = "Status" /\ last.ret = "ok"
    /\ Has(last.effects, "GetState:ok")
    /\ last.before.PodState = "READY" /\ last.rstate = "NOTREADY"

\* C13 as stated: aws.go: of two PodSandboxStatus calls on a sandbox within 30
\* seconds of each other (from the arrival of the one to the return of the
\* other), the second issues no GetState and leaves the sample the first left.
C13_TwoStatusWithin30 ==
    (/\ last.op = "Status" /\ last.ret = "ok"
     /\ last.prev.at >= 0 /\ now - last.prev.at <= StaleSeconds)
        => /\ ~Has(last.effects, "GetState")
           /\ podData[last.ptr].vmState = last.prev.vmState

\* C13 as amended: aws.go: a PodSandboxStatus that reads the clock no later
\* than 30 seconds after the time of the sample an earlier PodSandboxStatus of
\* the sandbox left issues no GetState and leaves that sample and its time as
\* they were; a record just created is sampled at creation time as running.
C13_FreshSampleIsKept ==
    /\ (/\ last.op = "Status" /\ last.ret = "ok"
        /\ last.prev.at >= 0 /\ now <= last.prev.checked + StaleSeconds)
           => /\ ~Has(last.effects, "GetState")
              /\ podData[last.ptr].vmState = last.prev.vmState
              /\ podData[last.ptr].vmStateLastChecked = last.prev.checked
    /\ (last.op = "Run" /\ last.ret = "ok")
           => /\ podData[last.vm].vmState = "running"
              /\ podData[last.vm].vmStateLastChecked = now

C13_Witness ==
    /\ last.op = "Status" /\ last.ret = "ok"
    /\ last.prev.at >= 0 /\ now = last.prev.checked + StaleSeconds
    /\ ~Has(last.effects, "GetState")
    /\ vms[last.ptr] # podData[last.ptr].vmState

\* C14: aws.go: when GetState fails in the refresh of a stale sample, the
\* cached state and its time stay as they were, and the PodSandboxStatus or
\* ListPodSandbox still returns its result computed from that sample: the
\* status is returned with no error, the record is not dropped from an
\* unfiltered list, and its state is NOTREADY iff it was stored NOTREADY or the
\* cached sample is not "running".
FromSample(pd) == IF pd.vmState # "running" THEN "NOTREADY" ELSE pd.PodState
C14_FailedRefreshKeepsSample ==
    [][\A p \in Procs :
          (Sampled(p) /\ Newest(EffectsAfter(p)) = "GetState:err") =>
              LET k == g[p].ptr
                  shown == FromSample(podData[k])
              IN /\ podData'[k].vmState = podData[k].vmState
                 /\ podData'[k].vmStateLastChecked = podData[k].vmStateLastChecked
                 /\ g[p].op = "Status" =>
                       (last'.who = p /\ last'.ret = "ok" /\ last'.rstate = shown)
                 /\ (g[p].op = "List" /\ g[p].filter.nil) =>
                       g'[p].items = Append(g[p].items,
                                            [Id |-> k, State |-> shown,
                                             Labels |-> podData[k].Labels])
                 /\ (g[p].op = "List" /\ ~g[p].filter.nil) =>
                       \/ g'[p].items = g[p].items /\ shown # "READY"
                       \/ g'[p].items = Append(g[p].items,
                                               [Id |-> k, State |-> shown,
                                                Labels |-> podData[k].Labels])]_vars

C14_Witness ==
    /\ last.op = "List" /\ last.ret = "ok" /\ last.filter.nil
    /\ Newest(last.effects) = "GetState:err"
    /\ Len(last.items) = 1
    /\ now > podData[last.items[1].Id].vmStateLastChecked + StaleSeconds

\* C15: when the concurrent RunPodSandbox calls have all returned, the
\* directory holds exactly one entry per returned id, each with the id, the
\* labels and the agent connection of its own request, and a ListPodSandbox
\* without filter returns one item per returned id.
C15_ConcurrentCreates ==
    (/\ ~crashed /\ \A p \in Procs : g[p].op # "Run"
     /\ Cardinality(created) = CreateQuota) =>
        /\ vmMap = created
        /\ \A k \in created :
              /\ podData[k].Id = k
              /\ podData[k].Labels = hist.req[k]
              /\ podData[k].Client = "conn"
        /\ (last.op = "List" /\ last.ret = "ok") =>
              /\ Len(last.items) = Cardinality(created)
              /\ \A k \in created : Occurrences(last.items, k) = 1

\* C16: a ContainerStatus whose container id is "<sandboxId>:<token>" is routed
\* by the text before the first colon: when that sandbox is a key of the
\* directory the request reaches its agent as it was sent and the agent's
\* answer is returned as it is; when it is not, the call fails SandboxNotFound
\* and no agent receives the request.
\* the characters before the first colon of c
Colons(c) == {i \in DOMAIN c : c[i] = ":"}
SandboxPart(c) == [i \in 1..((CHOOSE i \in Colons(c) : \A j \in Colons(c) : i <= j) - 1) |-> c[i]]
C16_RoutedByFirstSegment ==
    (last.op = "ContainerStatus" /\ Colons(last.cid) # {}) =>
        LET sid == NameToId(SandboxPart(last.cid))
        IN IF sid \in vmMap
           THEN /\ last.ptr = sid /\ last.sent = last.cid
                /\ last.effects = <<"Forward">>
                /\ last.ret = last.answer /\ last.answer \in AgentAnswers
           ELSE /\ last.ret = "SandboxNotFound"
                /\ last.sent = <<>> /\ last.effects = <<>>

C16_Witness ==
    /\ last.op = "ContainerStatus" /\ last.ret = "AgentError"
    /\ last.cid = <<"1", ":", ":">> /\ last.sent = last.cid /\ last.ptr = 1

\* C17: gcp_image.go PullImage: once the catalog answered, the number of items
\* decides the outcome: none fails NotFound, more than one fails AmbiguousImage,
\* exactly one succeeds and leaves under the key ref, the reference as the
\* caller wrote it, the one entry made from that item, with every other key as
\* it was. A PullImage that fails (these two, a catalog error, a reference that
\* cannot be parsed) changes nothing in the directory, and no key ever has more
\* than one entry.
PullReturns == last'.who # NoProc /\ last'.op = "PullImage"
OtherKeys(dir, ref) == dir \ ImagesAt(dir, ref)
HasTag(ref) == \E i \in DOMAIN ref : ref[i] = ":"
WithDefaultTag(ref) == IF HasTag(ref) THEN ref ELSE ref \o <<":", "latest">>
LookupReturned ==
    /\ last.ret = "ok"
    /\ \/ last.op = "ImageStatus"
       \/ last.op = "ListImages" /\ last.ref # <<>>
C18_LookupsNormalizeTheReference ==
    LookupReturned =>
        last.images = ImageSeq(ImagesAt(imageMap, WithDefaultTag(last.ref)))

\* C19: aws.go and virtualbox.go: a RunPodSandbox, RemovePodSandbox,
\* PodSandboxStatus or ListPodSandbox that is in a backend call (Provision,
\* GetIPs, Destroy, GetState) does not hold vmMapLock, neither as a reader nor
\* as the writer.
BackendPcs == {"run_provision", "run_getips", "run_destroy", "rm_destroy",
               "st_getstate", "ls_getstate"}
HoldsVmMapLock(p) ==
    \/ p \in vmMapLock.readers
    \/ vmMapLock.w = p /\ vmMapLock.held
C19_NoBackendCallUnderVmMapLock ==
    \A p \in Procs :
        (/\ ~crashed
         /\ g[p].op \in {"Run", "Remove", "Status", "List"}
         /\ g[p].pc \in BackendPcs) => ~HoldsVmMapLock(p)

\* C20: aws.go and virtualbox.go: while a goroutine is in the GetState of
\* sandbox A (inside PodSandboxStatus(A) or ListPodSandbox), a
\* PodSandboxStatus(B) or StopPodSandbox(B) on another sandbox B whose sample
\* is fresh is never held up: it can take its next step and has not blocked
\* for good; this also when every other goroutine is a RunPodSandbox or a
\* RemovePodSandbox that waits for vmMapLock.
StepBy(p) == AwsNext(p) \/ VboxNext(p)
RefreshingState(p, a) ==
    g[p].op \in {"Status", "List"} /\ g[p].pc \in {"st_getstate", "ls_getstate"} /\ g[p].ptr = a
Accessing(q, b) ==
    g[q].op \in {"Status", "Stop"} /\ g[q].pc # "idle" /\ g[q].id = b
FreshSample(b) == b \in vmMap /\ now <= podData[b].vmStateLastChecked + StaleSeconds
WaitsForVmMapLock(r) ==
    g[r].op \in {"Run", "Remove"} /\ ~HoldsVmMapLock(r) /\ ~ENABLED StepBy(r)
HeldUp(q) == g[q].pc = "blocked" \/ ~ENABLED StepBy(q)
C20_RefreshDoesNotBlockOthers ==
    \A p, q \in BlockProcs : \A a, b \in Ids :
        (/\ ~crashed /\ p # q /\ a # b
         /\ RefreshingState(p, a)
         /\ Accessing(q, b) /\ FreshSample(b)
         /\ \A r \in BlockProcs \ {p, q} : g[r].pc = "idle" \/ WaitsForVmMapLock(r))
        => ~HeldUp(q)

\* C21: aws.go and virtualbox.go RemovePodSandbox, poddata.go RemovePod: the
\* agent connection of a sandbox is closed at most once and exactly once when
\* a RemovePodSandbox of it has succeeded; Destroy is not called again on an
\* instance a Destroy has already destroyed; and of the RemovePodSandbox calls
\* for one id at most one returns success.
RemoveSucceeds == last'.who # NoProc /\ last'.op = "Remove" /\ last'.ret = "ok"
C21_ClosedAndDestroyedOnce ==
    [][/\ \A k \in Ids : closeCount'[k] <= 1
       /\ \A p \in Procs :
             (StepOf(p) /\ g[p].op = "Remove" /\ g[p].pc = "rm_destroy")
                => vms[g[p].ptr] # "destroyed"
       /\ RemoveSucceeds => /\ last'.id \notin removed
                            /\ closeCount'[last'.id] = 1
      ]_vars

\* C22: part_001 ContainerStatus, aws.go GetClient and RemovePodSandbox: a
\* container request that was forwarded to an agent was forwarded on a
\* connection that had not been closed: with a RemovePodSandbox of the same
\* sandbox running next to it, the request is forwarded before the close or
\* fails with SandboxNotFound.
Forwarded == last.op = "ContainerStatus" /\ Has(last.effects, "Forward")
C22_NoForwardOnClosedConnection ==
    Forwarded => closeCount[last.ptr] = 0

\* C23: aws.go PodSandboxStatus and filter, poddata.go StopPod: the PodState a
\* record stores is READY when the record is inserted, and a record that
\* stores NOTREADY stores NOTREADY for as long as it is in the directory,
\* whatever StopPodSandbox, PodSandboxStatus, ListPodSandbox and the refresh
\* of the sample do and whatever the backend reports later.
C23_PodStateMonotonic ==
    [][\A k \in Ids :
          /\ (k \notin vmMap /\ k \in vmMap') => podData'[k].PodState = "READY"
          /\ (k \in vmMap /\ k \in vmMap' /\ podData[k].PodState = "NOTREADY")
                => podData'[k].PodState = "NOTREADY"
      ]_vars
\* a record that was downgraded has since got a sample that says running
C23_Witness ==
    \E k \in vmMap : /\ podData[k].PodState = "NOTREADY"
                     /\ podData[k].vmState = "running"
                     /\ last.op \in {"Status", "List"} /\ Has(last.effects, "GetState:ok")

\* C24: aws.go ListPodSandbox / filter, virtualbox.go ListPodSandbox: no step
\* of a ListPodSandbox changes the keys of the directory, and the only fields
\* of a record it changes are vmState and vmStateLastChecked: PodState, Id,
\* Labels and Client of every record are as they were.
SameButSample(pd1, pd2) ==
    [pd1 EXCEPT !.vmState = pd2.vmState, !.vmStateLastChecked = pd2.vmStateLastChecked] = pd2
C24_ListIsReadOnly ==
    [][\A p \in Procs : (StepOf(p) /\ g[p].op = "List") =>
          /\ vmMap' = vmMap
          /\ \A k \in Ids : SameButSample(podData[k], podData'[k])
      ]_vars

\* C25: aws.go filter and PodSandboxStatus, virtualbox.go ListPodSandbox and
\* PodSandboxStatus, poddata.go StopPod: a step of PodSandboxStatus or
\* ListPodSandbox that reads or writes the PodState of a record is taken by a
\* goroutine that holds the StateLock of that record, so it cannot fall
\* between the Lock and the Unlock of a StopPod on the same record.
PodStatePcs == {"st_update", "st_getstate", "ls_update", "ls_getstate"}
C25_PodStateUnderStateLock ==
    [][\A p \in Procs :
          (StepOf(p) /\ g[p].op \in {"Status", "List"} /\ g[p].pc \in PodStatePcs)
             => stateLock[g[p].ptr] = p
      ]_vars

\* C26: virtualbox.go ListPodSandbox and PodSandboxStatus: whatever GetState
\* answers, error included, a ListPodSandbox without filter returns every
\* record of the directory, and a PodSandboxStatus of a record of the
\* directory returns a status and no error.
C26_StateErrorHidesNothing ==
    variant = "virtualbox" =>
        /\ (last.op = "List" /\ last.ret = "ok" /\ last.filter.nil)
              => \A k \in vmMap : Occurrences(last.items, k) = 1
        /\ (last.op = "Status" /\ last.ptr # NoId) => last.ret = "ok"

\* C27: aws.go and virtualbox.go RunPodSandbox: when GetIPs has returned and
\* there is no address to go on with, be it an error or an empty list, the
\* call returns NetworkError, the directory is as it was, and the process has
\* not crashed.
C27_NoAddressIsAnError ==
    [][\A p \in Procs :
          (StepOf(p) /\ g[p].op = "Run" /\ g[p].pc = "run_getips" /\ g'[p].pc # "run_client")
             => /\ ~crashed'
                /\ last'.who = p /\ last'.ret = "NetworkError"
                /\ vmMap' = vmMap
      ]_vars

\* C28: gcp_image.go PullImage and ImageStatus: while the directory holds the
\* entry a successful PullImage(ref) stored under ref (no RemoveImage(ref)
\* since), an ImageStatus(ref) with the same reference returns that image,
\* for a reference with a tag and for one without.
Pulled(ref) == ImagesAt(imageMap, ref) # {}
C28_PullThenStatus ==
    (last.op = "ImageStatus" /\ Pulled(last.ref)) =>
        /\ last.ret = "ok"
        /\ last.images = ImageSeq(ImagesAt(imageMap, last.ref))

\* C29: part_000 updateVMState, PodSandboxStatus, ListPodSandbox: no goroutine
\* of a PodSandboxStatus or ListPodSandbox waits for a StateLock it holds
\* itself (from where it could never return), and once such a call has
\* returned its goroutine holds neither vmMapLock nor a StateLock.
SelfBlocked(p) ==
    g[p].op \in {"Status", "List"} /\ g[p].pc = "blocked" /\ stateLock[g[p].ptr] = p
C29_StatusAndListReturn ==
    /\ \A p \in Procs : ~SelfBlocked(p)
    /\ (last.op \in {"Status", "List"} /\ last.who # NoProc) =>
          /\ vmMapLock.w # last.who
          /\ \A k \in Ids : stateLock[k] # last.who

\* C30: part_000 GetVMList: the call returns the names that were the keys of
\* vmMap at the moment it read them, it releases vmMapLock once, as the holder
\* it became by its Lock, and it never crashes the process by unlocking a
\* mutex that is not locked.
C30_GetVMListLockBalanced ==
    [][\A p \in Procs : (StepOf(p) /\ g[p].op = "GetVMList") =>
          /\ ~crashed'
          /\ g[p].pc = "p0_gv_read" => g'[p].items = NameSeq(vmMap)
          /\ g[p].pc = "p0_gv_unlock" => vmMapLock' = vmMapLock
      ]_vars

====
